---- MODULE Spec2Model ----
(***************************************************************************)
(* Character builder view-model (character_builder/state.py), the draft    *)
(* record (models.py) and the derived-stats calculator (rules.py).         *)
(*                                                                         *)
(* The rules dataset handed to CharacterViewModel.__init__ is the variable *)
(* srd; it is chosen at construction and never written afterwards.  Every  *)
(* mutator is one action.  A mutator is computed as a function on the      *)
(* record vm = [state, choice_groups, saving_throw_proficiencies,          *)
(* signal_suppression, emitted]; emitted is the list of Qt signals the     *)
(* call delivered, each with the draft and the choice-group map the        *)
(* connected slot sees at the moment of delivery.                          *)
(***************************************************************************)
EXTENDS Integers, Sequences, FiniteSets, TLC

VARIABLES srd, state, choice_groups, saving_throw_proficiencies,
          signal_suppression, emitted, scopes, last_op, ops

vars == <<srd, state, choice_groups, saving_throw_proficiencies,
          signal_suppression, emitted, scopes, last_op, ops>>

(***************************************************************************)
(* Bounds of the exploration.                                              *)
(***************************************************************************)
\* number of mutator calls explored from construction
MaxOps == 2
\* number of entries of each name table the name generator draws from
NameSample == 1
\* nesting depth of _suspend_signals scopes explored
MaxDepth == 3
\* number of steps explored when the private notification helpers are driven
MaxScopeOps == 4

(***************************************************************************)
(* Python values.                                                          *)
(***************************************************************************)
\* Python runs statements in sequence, each on the object the one before
\* left.  A sequence of steps is written
\*     CHOOSE done \in {last(v2) : v2 \in {second(v1) : v1 \in {first(vm)}}} : TRUE
\* which names each intermediate object once.

NONE == "<None>"

Truthy(v) == v # NONE /\ v # ""

\* None where a dict or a record is expected; an empty dict is falsy as well
NoRecord == <<>>

IsNone(r) == DOMAIN r = {}

\* Optional[int]: None, or the number
NoInt == <<>>

Some(n) == <<n>>

Max(a, b) == IF a >= b THEN a ELSE b

Min(a, b) == IF a <= b THEN a ELSE b

SetMax(S) == CHOOSE m \in S : \A n \in S : n <= m

Range(f) == {f[i] : i \in DOMAIN f}

\* characters in ASCII order, as far as identifiers of the dataset use them
Alphabet == " '+-0123456789:ABCDEFGHIJKLMNOPQRSTUVWXYZ_abcdefghijklmnopqrstuvwxyz"

\* the place of each character in Alphabet
OrdOf == [c \in {SubSeq(Alphabet, i, i) : i \in 1..Len(Alphabet)} |->
            CHOOSE i \in 1..Len(Alphabet) : SubSeq(Alphabet, i, i) = c]

Ord(c) == IF c \in DOMAIN OrdOf THEN OrdOf[c] ELSE 0

UpperCase == "ABCDEFGHIJKLMNOPQRSTUVWXYZ"

LowerCase == "abcdefghijklmnopqrstuvwxyz"

\* the lower-case letter of each upper-case letter
LowerOf == [c \in {SubSeq(UpperCase, i, i) : i \in 1..Len(UpperCase)} |->
                LET i == CHOOSE j \in 1..Len(UpperCase) : SubSeq(UpperCase, j, j) = c
                IN  SubSeq(LowerCase, i, i)]

LowerChar(c) == IF c \in DOMAIN LowerOf THEN LowerOf[c] ELSE c

RECURSIVE Lower(_)
\* str.lower()
Lower(s) == IF s = "" THEN "" ELSE LowerChar(SubSeq(s, 1, 1)) \o Lower(Tail(s))

RECURSIVE StrLess(_, _)
\* a < b on Python strings
StrLess(a, b) ==
    IF b = "" THEN FALSE
    ELSE IF a = "" THEN TRUE
    ELSE LET ca == Ord(SubSeq(a, 1, 1))
             cb == Ord(SubSeq(b, 1, 1))
         IN  IF ca # cb THEN ca < cb ELSE StrLess(Tail(a), Tail(b))

\* str.startswith
StartsWith(s, p) == Len(s) >= Len(p) /\ SubSeq(s, 1, Len(p)) = p

\* s.split(sep)[-1]
SplitLast(s, sep) ==
    CHOOSE last \in {IF P = {} THEN s ELSE SubSeq(s, SetMax(P) + Len(sep), Len(s)) :
                        P \in {{i \in 1..(Len(s) - Len(sep) + 1) :
                                    SubSeq(s, i, i + Len(sep) - 1) = sep}}} : TRUE

\* str.strip() on the names the model supplies (blanks at either end)
RECURSIVE LStrip(_)
LStrip(s) == IF s # "" /\ SubSeq(s, 1, 1) = " " THEN LStrip(Tail(s)) ELSE s

RECURSIVE RStrip(_)
RStrip(s) == IF s # "" /\ SubSeq(s, Len(s), Len(s)) = " "
             THEN RStrip(SubSeq(s, 1, Len(s) - 1)) ELSE s

Strip(s) == RStrip(LStrip(s))

\* sorted(S)[:k] for a set S of strings
RECURSIVE SortedPrefix(_, _)
SortedPrefix(S, k) ==
    IF k <= 0 \/ S = {} THEN {}
    ELSE LET lo == CHOOSE a \in S : \A b \in S : a = b \/ StrLess(a, b)
         IN  {lo} \cup SortedPrefix(S \ {lo}, k - 1)

\* dict.get(key, default)
Get(d, k, default) == IF k \in DOMAIN d THEN d[k] ELSE default

\* the dict d with key k set to v
Put(d, k, v) == [x \in (DOMAIN d) \cup {k} |-> IF x = k THEN v ELSE d[x]]

\* the dict d without the keys outside K
Restrict(d, K) == [x \in (DOMAIN d) \cap K |-> d[x]]

\* random.sample(pool, k) turned into a set: every choice of k positions
Samples(pool, k) ==
    {{pool[i] : i \in P} : P \in {Q \in SUBSET (1..Len(pool)) : Cardinality(Q) = k}}

(***************************************************************************)
(* constants.py                                                            *)
(***************************************************************************)
ABILITY_SCORES == <<"str", "dex", "con", "int", "wis", "cha">>

Abilities == Range(ABILITY_SCORES)

SKILL_TO_ABILITY ==
    [acrobatics |-> "dex", arcana |-> "int", athletics |-> "str",
     deception |-> "cha", history |-> "int", insight |-> "wis",
     intimidation |-> "cha", investigation |-> "int", medicine |-> "wis",
     nature |-> "int", perception |-> "wis", performance |-> "cha",
     persuasion |-> "cha", religion |-> "int", stealth |-> "dex",
     survival |-> "wis"]
    @@ ("animal-handling" :> "wis") @@ ("sleight-of-hand" :> "dex")

Skills == DOMAIN SKILL_TO_ABILITY

(***************************************************************************)
(* Module constants of state.py                                            *)
(***************************************************************************)
STANDARD_ARRAY == <<15, 14, 13, 12, 10, 8>>

CLASS_ABILITY_PRIORITIES ==
    [barbarian |-> <<"str", "con", "dex", "wis", "cha", "int">>,
     bard      |-> <<"cha", "dex", "con", "wis", "int", "str">>,
     cleric    |-> <<"wis", "con", "str", "dex", "int", "cha">>,
     druid     |-> <<"wis", "con", "dex", "int", "str", "cha">>,
     fighter   |-> <<"str", "con", "dex", "wis", "cha", "int">>,
     monk      |-> <<"dex", "wis", "con", "str", "int", "cha">>,
     paladin   |-> <<"str", "cha", "con", "wis", "dex", "int">>,
     ranger    |-> <<"dex", "wis", "con", "str", "int", "cha">>,
     rogue     |-> <<"dex", "int", "cha", "wis", "con", "str">>,
     sorcerer  |-> <<"cha", "con", "dex", "wis", "int", "str">>,
     warlock   |-> <<"cha", "con", "dex", "wis", "int", "str">>,
     wizard    |-> <<"int", "dex", "con", "wis", "cha", "str">>]

PREPARED_CASTER_CLASSES == {"cleric", "druid", "paladin", "wizard"}

LEVEL_WEIGHTS == <<20, 18, 16, 14, 12, 10, 9, 8, 7, 6, 5, 4, 4, 4, 3, 3, 2, 2, 2, 1>>

\* the entries of CLASS_STARTER_LOADOUTS for the classes of the datasets below
CLASS_STARTER_LOADOUTS ==
    [fighter |-> [armor |-> <<"chain-mail", "shield">>,
                  weapons |-> <<"longsword", "longsword", "longbow", "arrow">>,
                  gear |-> <<"dungeoneers-pack">>, gp |-> 75, gp_per_level |-> 30],
     wizard  |-> [armor |-> <<>>,
                  weapons |-> <<"quarterstaff", "dagger">>,
                  gear |-> <<"scholars-pack", "spellbook", "crystal">>,
                  gp |-> 50, gp_per_level |-> 20]]

DEFAULT_LOADOUT ==
    [armor |-> <<"leather-armor">>, weapons |-> <<"quarterstaff">>,
     gear |-> <<"explorers-pack">>, gp |-> 40, gp_per_level |-> 20]

\* the entries of RACE_NAME_TABLES for the races of the datasets below
RACE_NAME_TABLES ==
    [human |-> [male |-> <<"Alden", "Derrik", "Marcus", "Tristan", "Roland">>,
                female |-> <<"Elena", "Lysa", "Marian", "Seren", "Talia">>,
                surname |-> <<"Blackwood", "Cavalier", "Harrow", "Rivers", "Thorne">>],
     elf   |-> [male |-> <<"Aelar", "Theren", "Varis", "Erevan", "Syllion">>,
                female |-> <<"Aeris", "Lia", "Naivara", "Sylwen", "Thia">>,
                surname |-> <<"Evenwood", "Moonwhisper", "Nightbreeze", "Silvertree", "Windrunner">>],
     dwarf |-> [male |-> <<"Baern", "Bruen", "Dorn", "Harbek", "Rurik">>,
                female |-> <<"Amber", "Eldeth", "Finellen", "Mardred", "Torbera">>,
                surname |-> <<"Battlehammer", "Fireforge", "Ironfist", "Rockseeker", "Stonehelm">>]]

DEFAULT_NAME_TABLE ==
    [male |-> <<"Rowan", "Galen", "Tobin", "Lucan", "Merrick">>,
     female |-> <<"Ayla", "Celia", "Daphne", "Lyra", "Mira">>,
     surname |-> <<"Ashford", "Brightwood", "Fairwind", "Starling", "Waverly">>]

(***************************************************************************)
(* Rules datasets (data/srd.py: SRDData and its record types).  The JSON   *)
(* files are not part of the program; these are small datasets in the      *)
(* shape SRDData builds: SRD_WIZ has one race without subraces and one     *)
(* spellcasting class; SRD_MIX has a race without subraces and two with a  *)
(* subrace each, two classes, a background and two alignments; SRD_ODD,    *)
(* SRD_NO_RACES and SRD_NO_CLASSES are SRD_WIZ with a second class, with   *)
(* no race and with no class.                                              *)
(***************************************************************************)
Ref(index, name) == [option_type |-> "reference", item |-> [index |-> index, name |-> name]]

OptionsArray(choose, options) ==
    [choose |-> choose, from |-> [option_set_type |-> "options_array", options |-> options]]

Bonus(ability, n) == [ability_score |-> [index |-> ability], bonus |-> n]

Prof(index, type) == [index |-> index, type |-> type]

SlotKey(l) == "spell_slots_level_" \o ToString(l)

\* slots of a full caster, one row per class level
FULL_CASTER_SLOTS ==
    << <<2,0,0,0,0,0,0,0,0>>, <<3,0,0,0,0,0,0,0,0>>, <<4,2,0,0,0,0,0,0,0>>,
       <<4,3,0,0,0,0,0,0,0>>, <<4,3,2,0,0,0,0,0,0>>, <<4,3,3,0,0,0,0,0,0>>,
       <<4,3,3,1,0,0,0,0,0>>, <<4,3,3,2,0,0,0,0,0>>, <<4,3,3,3,1,0,0,0,0>>,
       <<4,3,3,3,2,0,0,0,0>>, <<4,3,3,3,2,1,0,0,0>>, <<4,3,3,3,2,1,0,0,0>>,
       <<4,3,3,3,2,1,1,0,0>>, <<4,3,3,3,2,1,1,0,0>>, <<4,3,3,3,2,1,1,1,0>>,
       <<4,3,3,3,2,1,1,1,0>>, <<4,3,3,3,2,1,1,1,1>>, <<4,3,3,3,3,1,1,1,1>>,
       <<4,3,3,3,3,2,1,1,1>>, <<4,3,3,3,3,2,2,1,1>> >>

WizardSpellcasting(l) ==
    [k \in {"cantrips_known"} \cup {SlotKey(i) : i \in 1..9} |->
        IF k = "cantrips_known"
        THEN (IF l < 4 THEN 3 ELSE IF l < 10 THEN 4 ELSE 5)
        ELSE FULL_CASTER_SLOTS[l][CHOOSE i \in 1..9 : SlotKey(i) = k]]

WIZARD ==
    [index |-> "wizard", name |-> "Wizard", hit_die |-> 6,
     proficiencies |-> <<Prof("daggers", "Weapons"), Prof("quarterstaffs", "Weapons")>>,
     proficiency_choices |->
        <<OptionsArray(2, <<Ref("skill-arcana", "Skill: Arcana"),
                            Ref("skill-history", "Skill: History"),
                            Ref("skill-insight", "Skill: Insight")>>)>>,
     saving_throws |-> <<Prof("saving-throw-int", "Saving Throws"),
                         Prof("saving-throw-wis", "Saving Throws")>>,
     spellcasting |-> [spellcasting_ability |-> [index |-> "int"]],
     levels |-> [l \in 1..20 |-> [level |-> l, spellcasting |-> WizardSpellcasting(l)]],
     subclasses |-> ("evocation" :> [index |-> "evocation", name |-> "Evocation",
                                     class_index |-> "wizard",
                                     features_by_level |-> {2, 6, 10, 14}])]

FIGHTER ==
    [index |-> "fighter", name |-> "Fighter", hit_die |-> 10,
     proficiencies |-> <<Prof("all-armor", "Armor"), Prof("shields", "Armor")>>,
     proficiency_choices |->
        <<OptionsArray(2, <<Ref("skill-acrobatics", "Skill: Acrobatics"),
                            Ref("skill-athletics", "Skill: Athletics"),
                            [option_type |-> "choice",
                             choice |-> OptionsArray(1, <<Ref("skill-perception", "Skill: Perception")>>)]>>)>>,
     saving_throws |-> <<Prof("saving-throw-str", "Saving Throws"),
                         Prof("saving-throw-con", "Saving Throws")>>,
     spellcasting |-> NoRecord,
     levels |-> [l \in 1..20 |-> [level |-> l, spellcasting |-> NoRecord]],
     subclasses |-> ("champion" :> [index |-> "champion", name |-> "Champion",
                                    class_index |-> "fighter",
                                    features_by_level |-> {3, 7, 10, 15, 18}])]

\* a class without an entry in CLASS_ABILITY_PRIORITIES, whose skill block
\* asks for three options and lists two items and an option without an item
ARTIFICER ==
    [index |-> "artificer", name |-> "Artificer", hit_die |-> 8,
     proficiencies |-> <<Prof("light-armor", "Armor")>>,
     proficiency_choices |->
        <<OptionsArray(3, <<Ref("skill-arcana", "Skill: Arcana"),
                            Ref("skill-history", "Skill: History"),
                            [option_type |-> "multiple"]>>)>>,
     saving_throws |-> <<Prof("saving-throw-con", "Saving Throws"),
                         Prof("saving-throw-int", "Saving Throws")>>,
     spellcasting |-> NoRecord,
     levels |-> [l \in 1..20 |-> [level |-> l, spellcasting |-> NoRecord]],
     subclasses |-> <<>>]

HUMAN ==
    [index |-> "human", name |-> "Human", speed |-> 30,
     ability_bonuses |-> <<Bonus("str", 1), Bonus("dex", 1), Bonus("con", 1),
                           Bonus("int", 1), Bonus("wis", 1), Bonus("cha", 1)>>,
     starting_proficiencies |-> <<>>,
     starting_proficiency_options |-> NoRecord,
     languages |-> <<[index |-> "common"]>>,
     language_options |-> OptionsArray(1, <<Ref("dwarvish", "Dwarvish"), Ref("elvish", "Elvish")>>),
     subraces |-> <<>>]

ELF ==
    [index |-> "elf", name |-> "Elf", speed |-> 30,
     ability_bonuses |-> <<Bonus("dex", 2)>>,
     starting_proficiencies |-> <<Prof("skill-perception", "Skills")>>,
     starting_proficiency_options |-> NoRecord,
     languages |-> <<[index |-> "common"], [index |-> "elvish"]>>,
     language_options |-> NoRecord,
     subraces |-> ("high-elf" :>
        [index |-> "high-elf", name |-> "High Elf",
         ability_bonuses |-> <<Bonus("int", 1)>>,
         proficiencies |-> <<Prof("longswords", "Weapons")>>,
         languages |-> <<>>,
         language_options |-> OptionsArray(1, <<Ref("dwarvish", "Dwarvish"), Ref("giant", "Giant")>>)])]

DWARF ==
    [index |-> "dwarf", name |-> "Dwarf", speed |-> 25,
     ability_bonuses |-> <<Bonus("con", 2)>>,
     starting_proficiencies |-> <<Prof("battleaxes", "Weapons")>>,
     starting_proficiency_options |->
        OptionsArray(1, <<Ref("smiths-tools", "Smith's Tools"), Ref("masons-tools", "Mason's Tools")>>),
     languages |-> <<[index |-> "common"], [index |-> "dwarvish"]>>,
     language_options |-> NoRecord,
     subraces |-> ("hill-dwarf" :>
        [index |-> "hill-dwarf", name |-> "Hill Dwarf",
         ability_bonuses |-> <<Bonus("wis", 1)>>,
         proficiencies |-> <<>>,
         languages |-> <<>>,
         language_options |-> NoRecord])]

ACOLYTE ==
    [index |-> "acolyte", name |-> "Acolyte",
     starting_proficiencies |-> <<Prof("skill-insight", "Skills"), Prof("skill-religion", "Skills")>>,
     language_options |-> OptionsArray(1, <<Ref("elvish", "Elvish"), Ref("giant", "Giant")>>)]

Spell(index, level, classes) == [index |-> index, name |-> index, level |-> level,
                                 classes |-> classes, subclasses |-> {}]

SPELLS ==
    <<Spell("fire-bolt", 0, {"wizard"}), Spell("light", 0, {"wizard", "cleric"}),
      Spell("bless", 1, {"cleric"}), Spell("magic-missile", 1, {"wizard"}),
      Spell("shield", 1, {"wizard"}), Spell("misty-step", 2, {"wizard"})>>

Item(category) == [equipment_category |-> [index |-> category]]

EQUIPMENT ==
    [longsword |-> Item("weapon"), longbow |-> Item("weapon"),
     shield |-> Item("armor"), arrow |-> Item("adventuring-gear"),
     quarterstaff |-> Item("weapon"), dagger |-> Item("weapon"),
     spellbook |-> Item("adventuring-gear"), crystal |-> Item("adventuring-gear")]
    @@ ("chain-mail" :> Item("armor")) @@ ("scholars-pack" :> Item("adventuring-gear"))
    @@ ("dungeoneers-pack" :> Item("adventuring-gear"))

PROFICIENCIES ==
    ("smiths-tools" :> Prof("smiths-tools", "Artisan's Tools"))
    @@ ("masons-tools" :> Prof("masons-tools", "Artisan's Tools"))
    @@ ("skill-arcana" :> Prof("skill-arcana", "Skills"))
    @@ ("skill-history" :> Prof("skill-history", "Skills"))
    @@ ("skill-insight" :> Prof("skill-insight", "Skills"))
    @@ ("skill-acrobatics" :> Prof("skill-acrobatics", "Skills"))
    @@ ("skill-athletics" :> Prof("skill-athletics", "Skills"))
    @@ ("skill-perception" :> Prof("skill-perception", "Skills"))

SRD_WIZ ==
    [classes |-> ("wizard" :> WIZARD),
     races |-> ("human" :> HUMAN),
     backgrounds |-> <<>>,
     alignments |-> <<[index |-> "neutral"]>>,
     spells |-> SPELLS, equipment |-> EQUIPMENT, proficiencies |-> PROFICIENCIES]

SRD_MIX ==
    [classes |-> ("fighter" :> FIGHTER) @@ ("wizard" :> WIZARD),
     races |-> ("dwarf" :> DWARF) @@ ("elf" :> ELF) @@ ("human" :> HUMAN),
     backgrounds |-> ("acolyte" :> ACOLYTE),
     alignments |-> <<[index |-> "lawful-good"], [index |-> "chaotic-evil"]>>,
     spells |-> SPELLS, equipment |-> EQUIPMENT, proficiencies |-> PROFICIENCIES]

\* SRD_WIZ with a second class
SRD_ODD == [SRD_WIZ EXCEPT !.classes = ("artificer" :> ARTIFICER) @@ ("wizard" :> WIZARD)]

\* a dataset whose races file was empty, and one whose classes file was
SRD_NO_RACES == [SRD_WIZ EXCEPT !.races = <<>>]

SRD_NO_CLASSES == [SRD_WIZ EXCEPT !.classes = <<>>]

\* dict.get on the dataset's maps: the record, or None for an unknown key
Lookup(d, k) == IF k \in DOMAIN d THEN d[k] ELSE NoRecord

(***************************************************************************)
(* models.py: DerivedStats and CharacterState                              *)
(***************************************************************************)
DerivedStats ==
    [proficiency_bonus |-> 2, armor_class |-> 10, initiative |-> 0, speed |-> 30,
     max_hit_points |-> 0, hit_die |-> NONE, saving_throws |-> <<>>,
     skill_bonuses |-> <<>>, passive_perception |-> 10, spell_slots |-> <<>>,
     spell_dc |-> NoInt, spell_attack |-> NoInt]

CharacterState ==
    [name |-> "New Adventurer", level |-> 1, race |-> NONE, subrace |-> NONE,
     background |-> NONE, character_class |-> NONE, subclass |-> NONE,
     alignment |-> NONE, gender |-> NONE,
     base_ability_scores |-> [a \in Abilities |-> 10],
     racial_ability_bonuses |-> [a \in Abilities |-> 0],
     subrace_ability_bonuses |-> [a \in Abilities |-> 0],
     manual_ability_bonuses |-> [a \in Abilities |-> 0],
     manual_hit_points |-> NoInt,
     automatic_skill_proficiencies |-> {}, automatic_tool_proficiencies |-> {},
     automatic_languages |-> {},
     selected_skill_proficiencies |-> {}, selected_skill_expertise |-> {},
     selected_tool_proficiencies |-> {}, selected_languages |-> {},
     selected_feats |-> <<>>, choice_selections |-> <<>>,
     selected_spells |-> <<>>, prepared_spells |-> {},
     equipment |-> <<>>,
     currency |-> [pp |-> 0, gp |-> 0, ep |-> 0, sp |-> 0, cp |-> 0],
     notes |-> "", biography |-> "",
     derived |-> DerivedStats, randomization_locks |-> {}]

total_bonus_for(st, ability) ==
    Get(st.racial_ability_bonuses, ability, 0)
    + Get(st.subrace_ability_bonuses, ability, 0)
    + Get(st.manual_ability_bonuses, ability, 0)

total_ability_score(st, ability) ==
    Get(st.base_ability_scores, ability, 10) + total_bonus_for(st, ability)

ability_modifier(st, ability) == (total_ability_score(st, ability) - 10) \div 2

\* CharacterState.reset: every field but name goes back to its default
reset(st) == [CharacterState EXCEPT !.name = st.name]

(***************************************************************************)
(* rules.py                                                                *)
(***************************************************************************)
\* proficiency_bonus counting the tiers from level 0
proficiency_bonus_from_zero(level) == 2 + Max(1, Min(level, 20)) \div 4

proficiency_bonus(level) == 2 + (Max(1, Min(level, 20)) - 1) \div 4

average_hit_die(hit_die) == (hit_die \div 2) + 1

compute_hit_points(st, class_data) ==
    IF st.manual_hit_points # NoInt THEN Max(st.manual_hit_points[1], st.level)
    ELSE IF IsNone(class_data) THEN Max(st.level, 1)
    ELSE LET con_mod == ability_modifier(st, "con")
             hit_die == IF class_data.hit_die # 0 THEN class_data.hit_die ELSE 8
             first   == hit_die + con_mod
             total   == IF st.level > 1
                        THEN first + Max(1, average_hit_die(hit_die) + con_mod) * (st.level - 1)
                        ELSE first
         IN  Max(total, st.level)

compute_passive_perception(st, skill_bonus) ==
    10 + Get(skill_bonus, "perception", ability_modifier(st, "wis"))

compute_speed(race) == IF ~IsNone(race) THEN race.speed ELSE 30

compute_saving_throws(st, proficient_abilities, prof_bonus) ==
    [ability \in Abilities |->
        ability_modifier(st, ability)
        + (IF ability \in proficient_abilities THEN prof_bonus ELSE 0)]

\* compute_skill_bonuses with expertise added on top of proficiency
compute_skill_bonuses_stacking(st, proficient_skills, expertise_skills, prof_bonus) ==
    [skill \in Skills |->
        ability_modifier(st, SKILL_TO_ABILITY[skill])
        + (IF skill \in expertise_skills THEN prof_bonus * 2 ELSE 0)
        + (IF skill \in proficient_skills THEN prof_bonus ELSE 0)]

compute_skill_bonuses(st, proficient_skills, expertise_skills, prof_bonus) ==
    [skill \in Skills |->
        ability_modifier(st, SKILL_TO_ABILITY[skill])
        + (IF skill \in expertise_skills THEN prof_bonus * 2
           ELSE IF skill \in proficient_skills THEN prof_bonus
           ELSE 0)]

spellcasting_ability_index(class_data) ==
    IF IsNone(class_data) THEN NONE
    ELSE IF IsNone(class_data.spellcasting) THEN NONE
    ELSE LET idx == class_data.spellcasting.spellcasting_ability.index
         IN  IF Truthy(idx) THEN Lower(idx) ELSE NONE

compute_spell_stats(st, class_data, prof_bonus) ==
    LET ability_idx == spellcasting_ability_index(class_data)
    IN  IF ability_idx = NONE THEN [dc |-> NoInt, attack |-> NoInt, ability |-> NONE]
        ELSE [dc |-> Some(8 + prof_bonus + ability_modifier(st, ability_idx)),
              attack |-> Some(prof_bonus + ability_modifier(st, ability_idx)),
              ability |-> ability_idx]

compute_spell_slots(class_data, level) ==
    IF IsNone(class_data) THEN <<>>
    ELSE IF IsNone(Lookup(class_data.levels, level)) THEN <<>>
    ELSE IF IsNone(class_data.levels[level].spellcasting) THEN <<>>
    ELSE CHOOSE slots \in
            {[i \in {n \in 0..9 : \E key \in DOMAIN slot_level :
                                    n \in slot_level[key] /\ sc[key] > 0} |->
                    sc[CHOOSE key \in DOMAIN slot_level : i \in slot_level[key]]] :
                sc \in {class_data.levels[level].spellcasting},
                \* int(key.split("_")[-1]) of the keys that name a slot level
                slot_level \in
                    {[key \in {k \in DOMAIN class_data.levels[level].spellcasting :
                                    StartsWith(k, "spell_slots_level_")} |->
                        {n \in 0..9 : ToString(n) = SplitLast(key, "_")}]}} : TRUE

update_derived_stats(st, class_data, race_data, proficient_skills, expertise_skills, saves) ==
    LET prof    == proficiency_bonus(st.level)
        hit_die == IF ~IsNone(class_data) THEN class_data.hit_die ELSE 0
        skills  == compute_skill_bonuses(st, proficient_skills, expertise_skills, prof)
        spell_stats == compute_spell_stats(st, class_data, prof)
    IN  [st EXCEPT !.derived =
            [proficiency_bonus |-> prof,
             max_hit_points |-> compute_hit_points(st, class_data),
             hit_die |-> IF hit_die # 0 THEN "d" \o ToString(hit_die) ELSE NONE,
             initiative |-> ability_modifier(st, "dex"),
             armor_class |-> 10 + ability_modifier(st, "dex"),
             speed |-> compute_speed(race_data),
             saving_throws |-> compute_saving_throws(st, saves, prof),
             skill_bonuses |-> skills,
             passive_perception |-> compute_passive_perception(st, skills),
             spell_dc |-> spell_stats.dc,
             spell_attack |-> spell_stats.attack,
             spell_slots |-> compute_spell_slots(class_data, st.level)]]

(***************************************************************************)
(* state.py: module-level helpers                                          *)
(***************************************************************************)
normalize_skill_index(value) ==
    IF StartsWith(value, "skill-") THEN SplitLast(value, "skill-") ELSE value

skills_from_proficiencies(proficiencies) ==
    {normalize_skill_index(prof.index) :
        prof \in {q \in Range(proficiencies) :
                    StartsWith(q.index, "skill-") \/ q.type = "Skill"}}

tools_from_proficiencies(proficiencies) ==
    {prof.index :
        prof \in {q \in Range(proficiencies) :
                    \/ q.type \in {"Tool", "Artisans Tools", "Instrument", "Gaming Set", "Other"}
                    \/ q.type \in {"Weapon", "Armor"}}}

saving_throws_from_proficiencies(proficiencies) ==
    {SplitLast(prof.index, "saving-throw-") :
        prof \in {q \in Range(proficiencies) : StartsWith(q.index, "saving-throw-")}}

infer_option_kind(index) ==
    IF ~Truthy(index) THEN "misc"
    ELSE IF StartsWith(index, "skill-") THEN "skill"
    ELSE IF StartsWith(index, "language-") THEN "language"
    ELSE IF StartsWith(index, "tool-") THEN "tool"
    ELSE IF StartsWith(index, "instrument-") THEN "tool"
    ELSE IF StartsWith(index, "armor-") \/ StartsWith(index, "weapon-") THEN "equipment"
    ELSE IF StartsWith(index, "saving-throw-") THEN "saving-throw"
    ELSE IF StartsWith(index, "ability-score-") THEN "ability"
    ELSE "misc"

RECURSIVE choice_group_from_option_block(_, _, _, _, _)
RECURSIVE options_of_block(_, _, _, _, _)
\* the loop over options_raw of _choice_group_from_option_block
options_of_block(options_raw, group_id, source, name, option_kind_hint) ==
    IF options_raw = <<>> THEN <<>>
    ELSE LET opt  == Head(options_raw)
             item == Get(opt, "item", NoRecord)
             here ==
                IF IsNone(item)
                THEN IF Get(opt, "option_type", NONE) = "choice"
                     THEN LET nested_group ==
                                choice_group_from_option_block(
                                    group_id \o ":nested", source, name,
                                    Get(opt, "choice", NoRecord), option_kind_hint)
                          IN  IF IsNone(nested_group) THEN <<>> ELSE nested_group.options
                     ELSE <<>>
                ELSE LET raw_index == Get(item, "index", NONE)
                         index == IF raw_index # NONE THEN Lower(raw_index) ELSE NONE
                         label == IF Truthy(Get(item, "name", NONE)) THEN item.name
                                  ELSE IF Truthy(index) THEN index ELSE "Option"
                         kind  == IF Truthy(option_kind_hint) THEN option_kind_hint
                                  ELSE infer_option_kind(index)
                         option_id == IF Truthy(index) THEN index ELSE Lower(label)
                     IN  <<[id |-> option_id, label |-> label, kind |-> kind, index |-> index]>>
         IN  here \o options_of_block(Tail(options_raw), group_id, source, name, option_kind_hint)

\* _choice_group_from_option_block; the dict forms of the "from" entry
choice_group_from_option_block(group_id, source, name, block, option_kind_hint) ==
    IF IsNone(block) THEN NoRecord
    ELSE LET choose == Get(block, "choose", 0)
             options_block == IF ~IsNone(Get(block, "from", NoRecord)) THEN block.from
                              ELSE Get(block, "options", NoRecord)
         IN  IF IsNone(options_block) \/ "options" \notin DOMAIN options_block THEN NoRecord
             ELSE LET options == options_of_block(options_block.options, group_id,
                                                  source, name, option_kind_hint)
                  IN  IF options = <<>> \/ choose = 0 THEN NoRecord
                      ELSE [id |-> group_id, source |-> source, name |-> name,
                            choose |-> choose, options |-> options,
                            description |-> Get(block, "desc", NONE)]

score_for_class(ability_bonuses, class_data) ==
    LET priorities == Get(CLASS_ABILITY_PRIORITIES, class_data.index, ABILITY_SCORES)
        primary    == priorities[1]
        secondary  == IF Len(priorities) > 1 THEN priorities[2] ELSE NONE
        \* four times the Python float, so that 0.75 and 1.5 stay integers
        term(b) == LET ability == Lower(b.ability_score.index)
                   IN  IF ability = primary THEN b.bonus * 8
                       ELSE IF ability = secondary THEN b.bonus * 6
                       ELSE b.bonus * 3
        sum[i \in 0..Len(ability_bonuses)] ==
            IF i = 0 THEN 0 ELSE sum[i - 1] + term(ability_bonuses[i])
        score == sum[Len(ability_bonuses)]
    IN  IF score # 0 THEN score ELSE 4

score_race_for_class(race, class_data) == score_for_class(race.ability_bonuses, class_data)

score_subrace_for_class(subrace, class_data) == score_for_class(subrace.ability_bonuses, class_data)

loadout_for_class(class_index) ==
    IF Truthy(class_index) /\ class_index \in DOMAIN CLASS_STARTER_LOADOUTS
    THEN CLASS_STARTER_LOADOUTS[class_index]
    ELSE DEFAULT_LOADOUT

ensure_positive_int(value) == Max(0, value)

\* the names _generate_character_name can return for a race and a gender
generate_character_name(race, gender) ==
    LET race_key == IF ~IsNone(race) THEN race.index ELSE "human"
        \* the race index itself is tried first; the parts of a hyphenated
        \* index are not needed for the races of the datasets
        name_table == Get(RACE_NAME_TABLES, race_key, DEFAULT_NAME_TABLE)
        given_options   == name_table[gender]
        surname_options == name_table.surname
    IN  {given_options[i] \o " " \o surname_options[j] :
            i \in 1..Min(NameSample, Len(given_options)),
            j \in 1..Min(NameSample, Len(surname_options))}

(***************************************************************************)
(* state.py: CharacterViewModel.  vm is the record of the object's fields  *)
(* and of the signals delivered so far in the running call.                *)
(***************************************************************************)
VM == [state |-> state, choice_groups |-> choice_groups,
       saving_throw_proficiencies |-> saving_throw_proficiencies,
       signal_suppression |-> signal_suppression, emitted |-> <<>>]

lock_field(vm, field, locked) ==
    [vm EXCEPT !.state.randomization_locks =
        IF locked THEN @ \cup {field} ELSE @ \ {field}]

is_locked(vm, field) == field \in vm.state.randomization_locks

\* Signal.emit(): the connected slots run now and see the object as it is
emit(vm, signal) ==
    [vm EXCEPT !.emitted = Append(@, [signal |-> signal, state |-> vm.state,
                                      choice_groups |-> vm.choice_groups,
                                      saving_throw_proficiencies |-> vm.saving_throw_proficiencies])]

emit_state_changed(vm) ==
    IF vm.signal_suppression = 0 THEN emit(vm, "stateChanged") ELSE vm

resolved_race(vm) ==
    IF Truthy(vm.state.race) THEN Lookup(srd.races, vm.state.race) ELSE NoRecord

resolved_class(vm) ==
    IF Truthy(vm.state.character_class) THEN Lookup(srd.classes, vm.state.character_class)
    ELSE NoRecord

resolved_subrace(vm) ==
    LET race == resolved_race(vm)
    IN  IF ~IsNone(race) /\ Truthy(vm.state.subrace)
        THEN Lookup(race.subraces, vm.state.subrace) ELSE NoRecord

resolved_background(vm) ==
    IF Truthy(vm.state.background) THEN Lookup(srd.backgrounds, vm.state.background)
    ELSE NoRecord

\* the sum of the bonuses a list of ability bonuses gives to one ability
bonus_total(ability_bonuses, ability) ==
    LET sum[i \in 0..Len(ability_bonuses)] ==
            IF i = 0 THEN 0
            ELSE sum[i - 1] + (IF Lower(ability_bonuses[i].ability_score.index) = ability
                               THEN ability_bonuses[i].bonus ELSE 0)
    IN  sum[Len(ability_bonuses)]

recalculate_racial_bonuses(vm) ==
    LET race    == resolved_race(vm)
        subrace == resolved_subrace(vm)
    IN  [vm EXCEPT
            !.state.racial_ability_bonuses =
                [a \in Abilities |->
                    IF ~IsNone(race) THEN bonus_total(race.ability_bonuses, a) ELSE 0],
            !.state.subrace_ability_bonuses =
                [a \in Abilities |->
                    IF ~IsNone(subrace) THEN bonus_total(subrace.ability_bonuses, a) ELSE 0]]

\* _gather_automatic_resources: the three sets it returns and the saving
\* throw proficiencies it stores
gather_automatic_resources(vm, class_data, race_data) ==
    LET subrace    == IF ~IsNone(race_data) /\ Truthy(vm.state.subrace)
                      THEN Lookup(race_data.subraces, vm.state.subrace) ELSE NoRecord
        background == resolved_background(vm)
    IN  [skills |->
            (IF ~IsNone(race_data) THEN skills_from_proficiencies(race_data.starting_proficiencies) ELSE {})
            \cup (IF ~IsNone(subrace) THEN skills_from_proficiencies(subrace.proficiencies) ELSE {})
            \cup (IF ~IsNone(background) THEN skills_from_proficiencies(background.starting_proficiencies) ELSE {}),
         tools |->
            (IF ~IsNone(race_data) THEN tools_from_proficiencies(race_data.starting_proficiencies) ELSE {})
            \cup (IF ~IsNone(subrace) THEN tools_from_proficiencies(subrace.proficiencies) ELSE {})
            \cup (IF ~IsNone(background) THEN tools_from_proficiencies(background.starting_proficiencies) ELSE {})
            \cup (IF ~IsNone(class_data) THEN tools_from_proficiencies(class_data.proficiencies) ELSE {}),
         languages |->
            (IF ~IsNone(race_data) THEN {lang.index : lang \in Range(race_data.languages)} ELSE {})
            \cup (IF ~IsNone(subrace) THEN {lang.index : lang \in Range(subrace.languages)} ELSE {}),
         saving_throw_proficiencies |->
            IF ~IsNone(class_data) THEN saving_throws_from_proficiencies(class_data.saving_throws)
            ELSE {}]

\* the option blocks _rebuild_choice_groups reads, in the order it reads
\* them, each with the arguments it gives _choice_group_from_option_block
option_blocks(vm) ==
    LET race       == resolved_race(vm)
        subrace    == resolved_subrace(vm)
        class_data == resolved_class(vm)
        background == resolved_background(vm)
        of_race ==
            IF IsNone(race) THEN <<>>
            ELSE (IF ~IsNone(race.language_options)
                  THEN <<[group_id |-> "race:" \o race.index \o ":languages",
                          source |-> "race", name |-> race.name \o " Bonus Languages",
                          block |-> race.language_options, option_kind_hint |-> "language"]>>
                  ELSE <<>>)
                 \o
                 (IF ~IsNone(race.starting_proficiency_options)
                  THEN <<[group_id |-> "race:" \o race.index \o ":proficiencies",
                          source |-> "race", name |-> race.name \o " Bonus Proficiencies",
                          block |-> race.starting_proficiency_options,
                          option_kind_hint |-> NONE]>>
                  ELSE <<>>)
        of_subrace ==
            IF ~IsNone(subrace) /\ ~IsNone(subrace.language_options)
            THEN <<[group_id |-> "subrace:" \o subrace.index \o ":languages",
                    source |-> "subrace", name |-> subrace.name \o " Languages",
                    block |-> subrace.language_options, option_kind_hint |-> "language"]>>
            ELSE <<>>
        of_class ==
            IF IsNone(class_data) THEN <<>>
            ELSE [idx \in 1..Len(class_data.proficiency_choices) |->
                    [group_id |-> "class:" \o class_data.index \o ":prof-" \o ToString(idx - 1),
                     source |-> "class",
                     name |-> IF Truthy(Get(class_data.proficiency_choices[idx], "desc", NONE))
                              THEN class_data.proficiency_choices[idx].desc
                              ELSE class_data.name \o " Choice " \o ToString(idx),
                     block |-> class_data.proficiency_choices[idx],
                     option_kind_hint |-> NONE]]
        of_background ==
            IF ~IsNone(background) /\ ~IsNone(background.language_options)
            THEN <<[group_id |-> "background:" \o background.index \o ":languages",
                    source |-> "background", name |-> background.name \o " Languages",
                    block |-> background.language_options, option_kind_hint |-> "language"]>>
            ELSE <<>>
    IN  of_race \o of_subrace \o of_class \o of_background

\* the groups _rebuild_choice_groups discovers: one for each block that
\* yields a group
discovered_groups(vm) ==
    {group \in {choice_group_from_option_block(call.group_id, call.source, call.name,
                                               call.block, call.option_kind_hint) :
                    call \in Range(option_blocks(vm))} : ~IsNone(group)}

\* a rebuild that discards the stored selections instead of filtering them
rebuilt_discarding_selections(vm) ==
    CHOOSE done \in
        {[vm EXCEPT !.choice_groups = new_groups, !.state.choice_selections = <<>>] :
         new_groups \in {[id \in {g.id : g \in found} |-> CHOOSE g \in found : g.id = id] :
                            found \in {discovered_groups(vm)}}} : TRUE

\* the groups and the filtered selections _rebuild_choice_groups stores,
\* before it emits
rebuilt(vm) ==
    CHOOSE done \in
        {[vm EXCEPT
            !.choice_groups = new_groups,
            \* filter stale selections
            !.state.choice_selections =
                [group_id \in (DOMAIN @) \cap (DOMAIN new_groups) |->
                    {opt_id \in @[group_id] :
                        \E opt \in Range(new_groups[group_id].options) : opt.id = opt_id}]] :
         new_groups \in {[id \in {g.id : g \in found} |-> CHOOSE g \in found : g.id = id] :
                            found \in {discovered_groups(vm)}}} : TRUE

emit_choice_groups_changed(vm) ==
    IF vm.signal_suppression = 0 THEN emit(vm, "choiceGroupsChanged") ELSE vm

rebuild_choice_groups(vm) ==
    CHOOSE done \in {emit_choice_groups_changed(v1) : v1 \in {rebuilt(v0) : v0 \in {vm}}} : TRUE

\* the options of the current groups that are selected
selected_options(vm) ==
    UNION {{opt \in Range(vm.choice_groups[group_id].options) :
                opt.id \in vm.state.choice_selections[group_id]} :
            group_id \in (DOMAIN vm.state.choice_selections) \cap (DOMAIN vm.choice_groups)}

option_value(opt) == IF Truthy(opt.index) THEN opt.index ELSE opt.id

skills_from_choice_selections(vm) ==
    {normalize_skill_index(option_value(opt)) :
        opt \in {o \in selected_options(vm) : o.kind = "skill"}}

languages_from_choice_selections(vm) ==
    {option_value(opt) : opt \in {o \in selected_options(vm) : o.kind = "language"}}

TOOL_TYPES == {"Artisan's Tools", "Musical Instruments", "Gaming Sets", "Vehicles", "Other"}

tools_from_choice_selections(vm) ==
    {option_value(opt) :
        opt \in {o \in selected_options(vm) :
                    \/ o.kind = "tool"
                    \/ LET entry == Lookup(srd.proficiencies, option_value(o))
                       IN  ~IsNone(entry) /\ Get(entry, "type", "") \in TOOL_TYPES}}

\* the draft _refresh_derived computes, before it emits
derive(vm) ==
    LET class_data == resolved_class(vm)
        race_data  == resolved_race(vm)
        auto       == gather_automatic_resources(vm, class_data, race_data)
        combined_skills == auto.skills \cup vm.state.selected_skill_proficiencies
                           \cup skills_from_choice_selections(vm)
        st1 == [vm.state EXCEPT
                    !.automatic_skill_proficiencies = auto.skills,
                    !.automatic_tool_proficiencies  = auto.tools \cup tools_from_choice_selections(vm),
                    !.automatic_languages = auto.languages \cup languages_from_choice_selections(vm)]
    IN  [vm EXCEPT
            !.saving_throw_proficiencies = auto.saving_throw_proficiencies,
            !.state = update_derived_stats(st1, class_data, race_data, combined_skills,
                                           st1.selected_skill_expertise,
                                           auto.saving_throw_proficiencies)]

emit_derived_changed(vm) ==
    IF vm.signal_suppression = 0 THEN emit(vm, "derivedChanged") ELSE vm

refresh_derived(vm) ==
    CHOOSE done \in {emit_derived_changed(v1) : v1 \in {derive(v0) : v0 \in {vm}}} : TRUE

\* _refresh_everything that also announces the change before recomputing
refresh_everything_announcing_first(vm) ==
    CHOOSE done \in
        {emit_state_changed(v4) :
            v4 \in {refresh_derived(v3) :
                v3 \in {rebuild_choice_groups(v2) :
                    v2 \in {recalculate_racial_bonuses(v1) :
                        v1 \in {emit_state_changed(v0) : v0 \in {vm}}}}}} : TRUE

refresh_everything(vm) ==
    CHOOSE done \in
        {emit_state_changed(v3) :
            v3 \in {refresh_derived(v2) :
                v2 \in {rebuild_choice_groups(v1) :
                    v1 \in {recalculate_racial_bonuses(v0) : v0 \in {vm}}}}} : TRUE

\* _suspend_signals that forgets to count the scope it opens
suspend_enter_uncounted(vm) == vm

\* _suspend_signals: entering the with block, and its finally clause
suspend_enter(vm) == [vm EXCEPT !.signal_suppression = @ + 1]

\* a finally clause that switches suppression off instead of counting down
suspend_exit_reset(vm) == [vm EXCEPT !.signal_suppression = 0]

suspend_exit(vm) == [vm EXCEPT !.signal_suppression = Max(0, @ - 1)]

(***************************************************************************)
(* state.py: the public mutators, as functions of vm and the arguments     *)
(***************************************************************************)
set_name(vm, name) ==
    LET vm1 == [vm EXCEPT !.state.name = IF Strip(name) # "" THEN Strip(name)
                                         ELSE "New Adventurer"]
    IN  emit_state_changed(lock_field(vm1, "name", Strip(name) # ""))

\* set_level that stores the level it is given, without the clamp to 1..20
set_level_unclamped(vm, level) ==
    IF level = vm.state.level THEN vm
    ELSE refresh_everything(lock_field([vm EXCEPT !.state.level = level], "level", TRUE))

\* set_level that stores the level and the lock and skips _refresh_everything
set_level_unrefreshed(vm, level) ==
    LET clamped == Max(1, Min(20, level))
    IN  IF clamped = vm.state.level THEN vm
        ELSE lock_field([vm EXCEPT !.state.level = clamped], "level", TRUE)

set_level(vm, level) ==
    LET clamped == Max(1, Min(20, level))
    IN  IF clamped = vm.state.level THEN vm
        ELSE refresh_everything(lock_field([vm EXCEPT !.state.level = clamped], "level", TRUE))

set_race(vm, race_index) ==
    LET vm1 == lock_field([vm EXCEPT !.state.race = IF Truthy(race_index) THEN Lower(race_index)
                                                    ELSE NONE],
                          "race", Truthy(race_index))
        race_obj == resolved_race(vm1)
        vm2 == IF Truthy(vm1.state.subrace)
                  /\ (IsNone(race_obj) \/ vm1.state.subrace \notin DOMAIN race_obj.subraces)
               THEN lock_field([vm1 EXCEPT !.state.subrace = NONE], "subrace", FALSE)
               ELSE vm1
    IN  refresh_everything(vm2)

set_subrace(vm, subrace_index) ==
    refresh_everything(
        lock_field([vm EXCEPT !.state.subrace = IF Truthy(subrace_index) THEN Lower(subrace_index)
                                                ELSE NONE],
                   "subrace", Truthy(subrace_index)))

\* set_class that leaves the subclass of the previous class in place
set_class_keeping_subclass(vm, class_index) ==
    refresh_everything(
        lock_field([vm EXCEPT !.state.character_class =
                        IF Truthy(class_index) THEN Lower(class_index) ELSE NONE],
                   "class", Truthy(class_index)))

set_class(vm, class_index) ==
    LET vm1 == lock_field([vm EXCEPT !.state.character_class =
                                IF Truthy(class_index) THEN Lower(class_index) ELSE NONE],
                          "class", Truthy(class_index))
        class_obj == resolved_class(vm1)
        vm2 == IF Truthy(vm1.state.subclass)
                  /\ (IsNone(class_obj) \/ vm1.state.subclass \notin DOMAIN class_obj.subclasses)
               THEN lock_field([vm1 EXCEPT !.state.subclass = NONE], "subclass", FALSE)
               ELSE vm1
    IN  refresh_everything(vm2)

set_subclass(vm, subclass_index) ==
    refresh_everything(
        lock_field([vm EXCEPT !.state.subclass = IF Truthy(subclass_index) THEN Lower(subclass_index)
                                                 ELSE NONE],
                   "subclass", Truthy(subclass_index)))

set_background(vm, background_index) ==
    refresh_everything(
        lock_field([vm EXCEPT !.state.background =
                        IF Truthy(background_index) THEN Lower(background_index) ELSE NONE],
                   "background", Truthy(background_index)))

set_alignment(vm, alignment) ==
    emit_state_changed(
        lock_field([vm EXCEPT !.state.alignment = alignment], "alignment", Truthy(alignment)))

\* set_gender that decides the lock on the argument, not on the stored value
set_gender_locking_raw(vm, gender) ==
    LET lowered    == IF Truthy(gender) THEN Lower(gender) ELSE NONE
        normalized == IF lowered \in {"male", "female", NONE} THEN lowered ELSE NONE
    IN  emit_state_changed(
            lock_field([vm EXCEPT !.state.gender = normalized], "gender", Truthy(gender)))

set_gender(vm, gender) ==
    LET lowered    == IF Truthy(gender) THEN Lower(gender) ELSE NONE
        normalized == IF lowered \in {"male", "female", NONE} THEN lowered ELSE NONE
    IN  emit_state_changed(
            lock_field([vm EXCEPT !.state.gender = normalized], "gender", Truthy(normalized)))

\* CharacterState.set_base_ability_score raises ValueError for an unknown ability
raises_unknown_ability(ability) == ability \notin Abilities

\* set_base_ability_score without the call of _refresh_derived
set_base_ability_score_unrefreshed(vm, ability, value) ==
    IF raises_unknown_ability(ability) THEN vm
    ELSE lock_field([vm EXCEPT !.state.base_ability_scores[ability] = Max(1, Min(30, value))],
                    "abilities", TRUE)

set_base_ability_score(vm, ability, value) ==
    IF raises_unknown_ability(ability) THEN vm
    ELSE refresh_derived(
            lock_field([vm EXCEPT !.state.base_ability_scores[ability] = Max(1, Min(30, value))],
                       "abilities", TRUE))

\* set_manual_ability_bonus that marks 'abilities' locked before the draft
\* has checked the ability
set_manual_ability_bonus_locking_first(vm, ability, value) ==
    IF raises_unknown_ability(ability) THEN lock_field(vm, "abilities", TRUE)
    ELSE refresh_derived(
            lock_field([vm EXCEPT !.state.manual_ability_bonuses[ability] = value],
                       "abilities", TRUE))

set_manual_ability_bonus(vm, ability, value) ==
    IF raises_unknown_ability(ability) THEN vm
    ELSE refresh_derived(
            lock_field([vm EXCEPT !.state.manual_ability_bonuses[ability] = value],
                       "abilities", TRUE))

\* lock_skills that never releases the lock
lock_skills_always(vm) == lock_field(vm, "skills", TRUE)

\* the lock update shared by toggle_skill_proficiency and toggle_expertise
lock_skills(vm) ==
    IF vm.state.selected_skill_proficiencies = {} /\ vm.state.selected_skill_expertise = {}
    THEN lock_field(lock_field(vm, "skills", TRUE), "skills", FALSE)
    ELSE lock_field(vm, "skills", TRUE)

toggle_skill_proficiency(vm, skill_index, enabled) ==
    LET normalized == normalize_skill_index(skill_index)
        vm1 == [vm EXCEPT !.state.selected_skill_proficiencies =
                    IF enabled THEN @ \cup {normalized} ELSE @ \ {normalized}]
    IN  refresh_derived(lock_skills(vm1))

toggle_expertise(vm, skill_index, enabled) ==
    LET normalized == normalize_skill_index(skill_index)
        vm1 == [vm EXCEPT !.state.selected_skill_expertise =
                    IF enabled THEN @ \cup {normalized} ELSE @ \ {normalized}]
    IN  refresh_derived(lock_skills(vm1))

\* the first k distinct members of a sequence that belong to S
RECURSIVE FirstGiven(_, _, _)
FirstGiven(seq, S, k) ==
    IF k <= 0 \/ seq = <<>> THEN {}
    ELSE IF Head(seq) \in S
         THEN {Head(seq)} \cup FirstGiven(Tail(seq), S \ {Head(seq)}, k - 1)
         ELSE FirstGiven(Tail(seq), S, k)

\* set_choice_selection trimming to the ids supplied first
legal_selection_first_given(group, selected_ids) ==
    FirstGiven(selected_ids, {opt.id : opt \in Range(group.options)}, group.choose)

\* set_choice_selection without the trim to the group's choose
legal_selection_untrimmed(group, selected_ids) ==
    {sid \in Range(selected_ids) : \E opt \in Range(group.options) : opt.id = sid}

\* the ids set_choice_selection stores for a group
legal_selection(group, selected_ids) ==
    LET selected == {sid \in Range(selected_ids) :
                        \E opt \in Range(group.options) : opt.id = sid}
    IN  IF Cardinality(selected) > group.choose
        THEN SortedPrefix(selected, group.choose)
        ELSE selected

set_choice_selection(vm, group_id, selected_ids) ==
    IF group_id \notin DOMAIN vm.choice_groups THEN vm
    ELSE LET selected == legal_selection(vm.choice_groups[group_id], selected_ids)
             vm1 == [vm EXCEPT !.state.choice_selections = Put(@, group_id, selected)]
             vm2 == IF selected # {} THEN lock_field(vm1, "choices", TRUE)
                    ELSE IF \A g \in DOMAIN vm1.state.choice_selections :
                                vm1.state.choice_selections[g] = {}
                         THEN lock_field(vm1, "choices", FALSE)
                         ELSE vm1
         IN  refresh_everything(vm2)

\* toggle_spell that touches only the bucket it is given
toggle_spell_one_bucket(vm, spell_index, kind, enabled) ==
    LET spell == Lower(spell_index)
        sel1  == IF kind \in DOMAIN vm.state.selected_spells THEN vm.state.selected_spells
                 ELSE Put(vm.state.selected_spells, kind, {})
        sel2  == [sel1 EXCEPT ![kind] = IF enabled THEN @ \cup {spell} ELSE @ \ {spell}]
    IN  emit_state_changed([vm EXCEPT !.state.selected_spells = sel2])

toggle_spell(vm, spell_index, kind, enabled) ==
    LET spell == Lower(spell_index)
        sel0  == vm.state.selected_spells
        \* selected_spells.setdefault(kind, set())
        sel1  == IF kind \in DOMAIN sel0 THEN sel0 ELSE Put(sel0, kind, {})
        sel2  == IF enabled
                 THEN LET added == [sel1 EXCEPT ![kind] = @ \cup {spell}]
                      IN  IF kind = "prepared"
                          THEN Put(added, "known", Get(added, "known", {}) \cup {spell})
                          ELSE added
                 ELSE LET dropped == [sel1 EXCEPT ![kind] = @ \ {spell}]
                      IN  IF kind = "known" /\ "prepared" \in DOMAIN dropped
                          THEN [dropped EXCEPT !["prepared"] = @ \ {spell}]
                          ELSE dropped
    IN  emit_state_changed([vm EXCEPT !.state.selected_spells = sel2])

\* MainWindow._on_clear_clicked: CharacterState.reset, then _refresh_everything
clear_character(vm) == refresh_everything([vm EXCEPT !.state = reset(vm.state)])

(***************************************************************************)
(* state.py: randomize_character.  Each stage is a function of vm and of   *)
(* the value the random module returns; the set before it lists the values *)
(* the draw can return ({NONE} when the stage draws nothing).              *)
(***************************************************************************)
\* random.choices(population, weights): the entries of positive weight
weighted_pool(weights) == {k \in DOMAIN weights : weights[k] > 0}

keeps_class(vm) ==
    is_locked(vm, "class") /\ Truthy(vm.state.character_class)

class_draws(vm) ==
    IF keeps_class(vm) /\ ~IsNone(resolved_class(vm)) THEN {NONE} ELSE DOMAIN srd.classes

randomize_class(vm, pick) ==
    IF keeps_class(vm)
    THEN IF ~IsNone(resolved_class(vm)) THEN vm
         ELSE [vm EXCEPT !.state.character_class = srd.classes[pick].index]
    ELSE lock_field([vm EXCEPT !.state.character_class = srd.classes[pick].index],
                    "class", FALSE)

\* the levels of range(1, 21) the draw is explored for
LevelDraws == {1, 2, 5, 20}

\* a draw over range(20) in place of range(1, 21)
level_draws_zero_based(vm) ==
    IF ~is_locked(vm, "level") \/ vm.state.level <= 0
    THEN {l - 1 : l \in weighted_pool(LEVEL_WEIGHTS) \cap LevelDraws} ELSE {0}

level_draws(vm) ==
    IF ~is_locked(vm, "level") \/ vm.state.level <= 0
    THEN weighted_pool(LEVEL_WEIGHTS) \cap LevelDraws ELSE {0}

randomize_level(vm, pick) ==
    IF ~is_locked(vm, "level") \/ vm.state.level <= 0
    THEN [vm EXCEPT !.state.level = pick] ELSE vm

keeps_race(vm) == is_locked(vm, "race") /\ Truthy(vm.state.race)

pick_weighted_race(class_data) ==
    weighted_pool([r \in DOMAIN srd.races |-> score_race_for_class(srd.races[r], class_data)])

race_draws(vm) ==
    IF keeps_race(vm)
    THEN IF ~IsNone(resolved_race(vm)) THEN {NONE} ELSE DOMAIN srd.races
    ELSE pick_weighted_race(resolved_class(vm))

randomize_race(vm, pick) ==
    IF keeps_race(vm)
    THEN IF ~IsNone(resolved_race(vm)) THEN vm
         ELSE [vm EXCEPT !.state.race = srd.races[pick].index]
    ELSE lock_field([vm EXCEPT !.state.race = srd.races[pick].index], "race", FALSE)

\* keeps_subrace that trusts the lock without looking at the race
keeps_subrace_unchecked(vm) == is_locked(vm, "subrace")

keeps_subrace(vm) ==
    LET race == resolved_race(vm)
    IN  is_locked(vm, "subrace") /\ vm.state.subrace \in DOMAIN race.subraces

pick_weighted_subrace(race, class_data) ==
    IF IsNone(race.subraces) THEN {NONE}
    ELSE weighted_pool([k \in DOMAIN race.subraces |->
                            score_subrace_for_class(race.subraces[k], class_data)])

subrace_draws(vm) ==
    LET race == resolved_race(vm)
    IN  IF ~IsNone(race.subraces) /\ ~keeps_subrace(vm)
        THEN pick_weighted_subrace(race, resolved_class(vm)) ELSE {NONE}

randomize_subrace(vm, pick) ==
    LET race == resolved_race(vm)
    IN  IF ~IsNone(race.subraces)
        THEN IF keeps_subrace(vm) THEN vm
             ELSE lock_field([vm EXCEPT !.state.subrace =
                                    IF pick # NONE THEN race.subraces[pick].index ELSE NONE],
                             "subrace", FALSE)
        ELSE [vm EXCEPT !.state.subrace = NONE]

keeps_subclass(vm) ==
    LET class_data == resolved_class(vm)
    IN  is_locked(vm, "subclass") /\ vm.state.subclass \in DOMAIN class_data.subclasses

eligible_subclasses(vm) ==
    LET class_data == resolved_class(vm)
        min_level(subclass) == IF subclass.features_by_level # {}
                               THEN CHOOSE l \in subclass.features_by_level :
                                        \A m \in subclass.features_by_level : l <= m
                               ELSE 3
    IN  {k \in DOMAIN class_data.subclasses :
            vm.state.level >= min_level(class_data.subclasses[k])}

subclass_draws(vm) ==
    LET class_data == resolved_class(vm)
    IN  IF ~IsNone(class_data.subclasses) /\ ~keeps_subclass(vm) /\ eligible_subclasses(vm) # {}
        THEN eligible_subclasses(vm) ELSE {NONE}

randomize_subclass(vm, pick) ==
    LET class_data == resolved_class(vm)
    IN  IF ~IsNone(class_data.subclasses)
        THEN IF keeps_subclass(vm) THEN vm
             ELSE lock_field([vm EXCEPT !.state.subclass =
                                    IF pick # NONE THEN class_data.subclasses[pick].index ELSE NONE],
                             "subclass", FALSE)
        ELSE [vm EXCEPT !.state.subclass = NONE]

keeps_background(vm) == is_locked(vm, "background") /\ Truthy(vm.state.background)

background_draws(vm) ==
    IF ~keeps_background(vm) /\ ~IsNone(srd.backgrounds) THEN DOMAIN srd.backgrounds ELSE {NONE}

randomize_background(vm, pick) ==
    IF keeps_background(vm) THEN vm
    ELSE IF pick # NONE
         THEN lock_field([vm EXCEPT !.state.background = srd.backgrounds[pick].index],
                         "background", FALSE)
         ELSE [vm EXCEPT !.state.background = NONE]

keeps_alignment(vm) == is_locked(vm, "alignment") /\ Truthy(vm.state.alignment)

alignment_draws(vm) ==
    IF ~keeps_alignment(vm) /\ srd.alignments # <<>>
    THEN {entry.index : entry \in Range(srd.alignments)} ELSE {NONE}

randomize_alignment(vm, pick) ==
    IF keeps_alignment(vm) THEN vm
    ELSE lock_field([vm EXCEPT !.state.alignment = pick], "alignment", FALSE)

\* a gender stage that does not look at the lock
keeps_gender_never(vm) == FALSE

keeps_gender(vm) == is_locked(vm, "gender") /\ Truthy(vm.state.gender)

gender_draws(vm) == IF keeps_gender(vm) THEN {NONE} ELSE {"male", "female"}

randomize_gender(vm, pick) ==
    IF keeps_gender(vm) THEN vm
    ELSE lock_field([vm EXCEPT !.state.gender = pick], "gender", FALSE)

name_draws(vm) ==
    IF ~is_locked(vm, "name")
    THEN generate_character_name(resolved_race(vm), vm.state.gender) ELSE {NONE}

randomize_name(vm, pick) ==
    IF ~is_locked(vm, "name")
    THEN lock_field([vm EXCEPT !.state.name = pick], "name", FALSE) ELSE vm

\* the resets of skills, spells, abilities and notes that are not locked
reset_unlocked(vm) ==
    [vm EXCEPT
        !.state.selected_skill_proficiencies = IF is_locked(vm, "skills") THEN @ ELSE {},
        !.state.selected_skill_expertise     = IF is_locked(vm, "skills") THEN @ ELSE {},
        !.state.selected_spells   = IF is_locked(vm, "spells") THEN @ ELSE <<>>,
        !.state.prepared_spells   = IF is_locked(vm, "spells") THEN @ ELSE {},
        !.state.manual_hit_points = IF is_locked(vm, "abilities") THEN @ ELSE NoInt,
        !.state.base_ability_scores =
            IF is_locked(vm, "abilities") THEN @ ELSE [a \in Abilities |-> 10],
        !.state.manual_ability_bonuses =
            IF is_locked(vm, "abilities") THEN @ ELSE [a \in Abilities |-> 0],
        !.state.notes = IF is_locked(vm, "notes") THEN @ ELSE ""]

generate_equipment_and_currency(vm, class_data) ==
    LET loadout   == loadout_for_class(IF ~IsNone(class_data) THEN class_data.index ELSE NONE)
        equipment == loadout.armor \o loadout.weapons \o loadout.gear
        level     == vm.state.level
        magic_bonus == IF level >= 16 THEN 3 ELSE IF level >= 11 THEN 2
                       ELSE IF level >= 5 THEN 1 ELSE 0
        is_weapon(item_index) ==
            LET entry == Lookup(srd.equipment, item_index)
            IN  ~IsNone(entry) /\ Lower(entry.equipment_category.index) = "weapon"
        weapons == {idx \in 1..Len(equipment) : is_weapon(equipment[idx])}
        first   == CHOOSE idx \in weapons : \A other \in weapons : idx <= other
        total_gp == loadout.gp + Max(0, Max(1, level) - 1) * loadout.gp_per_level
    IN  [equipment |->
            IF magic_bonus > 0 /\ weapons # {}
            THEN [equipment EXCEPT ![first] = @ \o "+" \o ToString(magic_bonus)]
            ELSE equipment,
         currency |-> [pp |-> ensure_positive_int(0), gp |-> ensure_positive_int(total_gp),
                       ep |-> ensure_positive_int(0), sp |-> ensure_positive_int(0),
                       cp |-> ensure_positive_int(0)]]

randomize_equipment(vm) ==
    LET generated == generate_equipment_and_currency(vm, resolved_class(vm))
        vm1 == IF ~is_locked(vm, "equipment")
               THEN lock_field([vm EXCEPT !.state.equipment = generated.equipment],
                               "equipment", FALSE)
               ELSE vm
    IN  IF ~is_locked(vm1, "currency")
        THEN lock_field([vm1 EXCEPT !.state.currency = generated.currency], "currency", FALSE)
        ELSE vm1

\* _apply_standard_array handing out the array in the plain order
apply_standard_array_plain(vm, class_data) ==
    [vm EXCEPT !.state.base_ability_scores =
        [a \in Abilities |-> STANDARD_ARRAY[CHOOSE i \in 1..Len(ABILITY_SCORES) :
                                                ABILITY_SCORES[i] = a]]]

apply_standard_array(vm, class_data) ==
    LET priorities == Get(CLASS_ABILITY_PRIORITIES,
                          IF ~IsNone(class_data) THEN class_data.index ELSE "",
                          ABILITY_SCORES)
        listed     == priorities \o ABILITY_SCORES
        \* the abilities in order of first appearance
        ordered    == SelectSeq([i \in 1..Len(listed) |->
                                    IF \E j \in 1..(i - 1) : listed[j] = listed[i]
                                    THEN NONE ELSE listed[i]],
                                LAMBDA a : a # NONE)
        fallback   == STANDARD_ARRAY[Len(STANDARD_ARRAY)]
        assigned(ability) ==
            IF \E i \in 1..Min(Len(ordered), Len(STANDARD_ARRAY)) : ordered[i] = ability
            THEN STANDARD_ARRAY[CHOOSE i \in 1..Min(Len(ordered), Len(STANDARD_ARRAY)) :
                                    ordered[i] = ability]
            ELSE fallback
    IN  [vm EXCEPT !.state.base_ability_scores = [a \in Abilities |-> assigned(a)]]

RECURSIVE dict_product(_)
\* every dict that takes, for each key of pools, one member of pools[key]
dict_product(pools) ==
    IF DOMAIN pools = {} THEN {<<>>}
    ELSE LET k    == CHOOSE x \in DOMAIN pools : TRUE
             rest == dict_product(Restrict(pools, (DOMAIN pools) \ {k}))
         IN  {Put(f, k, v) : f \in rest, v \in pools[k]}

\* _auto_populate_choice_selections: for each group that is filled, the
\* samples random.sample can return
choice_draws(vm, overwrite) ==
    LET option_ids(g) == [i \in 1..Len(vm.choice_groups[g].options) |->
                            vm.choice_groups[g].options[i].id]
        existing(g)   == Get(vm.state.choice_selections, g, {})
        available(g)  == SelectSeq(option_ids(g), LAMBDA opt : opt \notin existing(g))
        pick_count(g) == IF overwrite
                         THEN Min(vm.choice_groups[g].choose, Len(option_ids(g)))
                         ELSE Min(vm.choice_groups[g].choose - Cardinality(existing(g)),
                                  Len(available(g)))
        filled == {g \in DOMAIN vm.choice_groups :
                      /\ Len(option_ids(g)) > 0
                      /\ vm.choice_groups[g].choose > 0
                      /\ (~overwrite => vm.choice_groups[g].choose - Cardinality(existing(g)) > 0)
                      /\ pick_count(g) > 0}
    IN  dict_product([g \in filled |->
                        Samples(IF overwrite THEN option_ids(g) ELSE available(g), pick_count(g))])

\* _auto_populate_choice_selections adding the new sample to what is stored
auto_populate_choice_selections_merging(vm, overwrite, picks) ==
    [vm EXCEPT !.state.choice_selections =
        [g \in (DOMAIN @) \cup (DOMAIN picks) |->
            IF g \in DOMAIN picks THEN Get(@, g, {}) \cup picks[g] ELSE @[g]]]

\* _auto_populate_choice_selections that stores the new sample alone
auto_populate_choice_selections_replacing(vm, overwrite, picks) ==
    [vm EXCEPT !.state.choice_selections =
        [g \in (DOMAIN @) \cup (DOMAIN picks) |->
            IF g \in DOMAIN picks THEN picks[g] ELSE @[g]]]

auto_populate_choice_selections(vm, overwrite, picks) ==
    [vm EXCEPT !.state.choice_selections =
        [g \in (DOMAIN @) \cup (DOMAIN picks) |->
            IF g \in DOMAIN picks
            THEN IF overwrite THEN picks[g] ELSE Get(@, g, {}) \cup picks[g]
            ELSE @[g]]]

\* spells_by_level().get(level, []): the class's spells, then the subclass's
spells_of_level(vm, level) ==
    IF ~Truthy(vm.state.character_class) THEN <<>>
    ELSE SelectSeq(srd.spells,
                   LAMBDA spell : spell.level = level
                                  /\ Lower(vm.state.character_class) \in spell.classes)
         \o (IF Truthy(vm.state.subclass)
             THEN SelectSeq(srd.spells,
                            LAMBDA spell : spell.level = level
                                           /\ Lower(vm.state.subclass) \in spell.subclasses)
             ELSE <<>>)

\* the spellcasting entry of the class at the draft's level, None if absent
level_spellcasting(vm, class_data) ==
    IF IsNone(class_data) THEN NoRecord
    ELSE LET level_info == Lookup(class_data.levels, vm.state.level)
         IN  IF IsNone(level_info) THEN NoRecord ELSE level_info.spellcasting

\* the indexes of the leveled spells _auto_assign_spells samples from
leveled_spells(vm, spellcasting) ==
    LET by_level[lvl \in 0..9] ==
            IF lvl = 0 THEN <<>>
            ELSE by_level[lvl - 1] \o
                 (IF Get(spellcasting, SlotKey(lvl), 0) > 0
                  THEN [i \in 1..Len(spells_of_level(vm, lvl)) |->
                            spells_of_level(vm, lvl)[i].index]
                  ELSE <<>>)
        all == by_level[9]
    IN  \* one entry per index
        SelectSeq([i \in 1..Len(all) |->
                        IF \E j \in (i + 1)..Len(all) : all[j] = all[i] THEN NONE ELSE all[i]],
                  LAMBDA idx : idx # NONE)

\* the three samples _auto_assign_spells draws
spell_draws(vm, class_data) ==
    LET spellcasting == level_spellcasting(vm, class_data)
    IN  IF IsNone(spellcasting) THEN {[cantrips |-> {}, known |-> {}, prepared |-> {}]}
        ELSE LET cantrips == [i \in 1..Len(spells_of_level(vm, 0)) |->
                                    spells_of_level(vm, 0)[i].index]
                 cantrips_known == Get(spellcasting, "cantrips_known", 0)
                 leveled  == leveled_spells(vm, spellcasting)
                 spells_known == Get(spellcasting, "spells_known", 0)
                 ability_idx == spellcasting_ability_index(class_data)
                 ability_mod == IF ability_idx # NONE
                                THEN ability_modifier(vm.state, ability_idx) ELSE 0
                 prepared_count == Max(1, ability_mod + vm.state.level)
             IN  {[cantrips |-> c, known |-> k, prepared |-> q] :
                    c \in IF cantrips_known # 0 /\ cantrips # <<>>
                          THEN Samples(cantrips, Min(cantrips_known, Len(cantrips))) ELSE {{}},
                    k \in IF spells_known # 0 /\ leveled # <<>>
                          THEN Samples(leveled, Min(spells_known, Len(leveled))) ELSE {{}},
                    q \in IF class_data.index \in PREPARED_CASTER_CLASSES /\ leveled # <<>>
                          THEN Samples(leveled, Min(prepared_count, Len(leveled))) ELSE {{}}}

auto_assign_spells(vm, class_data, picks) ==
    IF IsNone(level_spellcasting(vm, class_data))
    THEN [vm EXCEPT !.state.selected_spells = <<>>]
    ELSE LET selected_prepared == {Lower(idx) : idx \in picks.prepared}
             selected_known    == {Lower(idx) : idx \in picks.cantrips \cup picks.known}
                                  \cup selected_prepared
             known_entry    == IF selected_known # {} THEN ("known" :> selected_known) ELSE <<>>
             prepared_entry == IF selected_prepared # {}
                               THEN ("prepared" :> selected_prepared) ELSE <<>>
         IN  [vm EXCEPT !.state.selected_spells = known_entry @@ prepared_entry,
                        !.state.prepared_spells = selected_prepared]

\* the with block of randomize_character, up to the choice groups
randomize_prepare(vm) ==
    CHOOSE done \in
        {rebuild_choice_groups(v3) :
            v3 \in {recalculate_racial_bonuses(v2) :
                v2 \in {IF ~is_locked(v1, "abilities")
                        THEN apply_standard_array(v1, resolved_class(v1)) ELSE v1 :
                    v1 \in {suspend_enter(v0) : v0 \in {vm}}}}} : TRUE

\* the end of randomize_character: the last recompute inside the with
\* block, the end of the block and the three emissions
randomize_finish(vm) ==
    CHOOSE done \in
        {emit(v4, "derivedChanged") :
            v4 \in {emit(v3, "choiceGroupsChanged") :
                v3 \in {emit_state_changed(v2) :
                    v2 \in {suspend_exit(v1) :
                        v1 \in {refresh_derived(v0) : v0 \in {vm}}}}}} : TRUE

\* randomize_character: every object the call can end in, one for each
\* outcome of the draws
randomize_character(vm) ==
    IF DOMAIN srd.classes = {} THEN {vm}
    ELSE
    {randomize_finish(v12) :
     v12 \in UNION {IF ~is_locked(v11, "spells")
                    THEN {auto_assign_spells(v11, resolved_class(v11), picks) :
                            picks \in spell_draws(v11, resolved_class(v11))}
                    ELSE {v11} :
     v11 \in UNION {{auto_populate_choice_selections(v10, ~is_locked(v10, "choices"), picks) :
                        picks \in choice_draws(v10, ~is_locked(v10, "choices"))} :
     v10 \in {randomize_prepare(w2) :
                w2 \in {randomize_equipment(w1) : w1 \in {reset_unlocked(v9) :
     v9 \in UNION {{randomize_name(v8, pick) : pick \in name_draws(v8)} :
     v8 \in UNION {{randomize_gender(v7, pick) : pick \in gender_draws(v7)} :
     v7 \in UNION {{randomize_alignment(v6, pick) : pick \in alignment_draws(v6)} :
     v6 \in UNION {{randomize_background(v5, pick) : pick \in background_draws(v5)} :
     v5 \in UNION {{randomize_subclass(v4, pick) : pick \in subclass_draws(v4)} :
     v4 \in UNION {{randomize_subrace(v3, pick) : pick \in subrace_draws(v3)} :
     v3 \in UNION {{randomize_race(v2, pick) : pick \in race_draws(v2)} :
     v2 \in UNION {{randomize_level(v1, pick) : pick \in level_draws(v1)} :
     v1 \in {randomize_class(v0, pick) : v0 \in {vm}, pick \in class_draws(vm)}
     }}}}}}}}}}}}}}

\* randomize_character raising IndexError in the race stage, where
\* _pick_weighted_race and random.choice draw from the races of a dataset that
\* has none: the objects the exception leaves, the class and the level
\* stage done and nothing emitted
randomize_interrupted(vm) ==
    IF DOMAIN srd.classes = {} THEN {}
    ELSE {v2 \in UNION {{randomize_level(v1, pick) : pick \in level_draws(v1)} :
                        v1 \in {randomize_class(vm, pick) : pick \in class_draws(vm)}} :
            race_draws(v2) = {}}

(***************************************************************************)
(* The state machine.  last_op names the call that produced the state,     *)
(* with its arguments; ops counts the calls since construction.            *)
(***************************************************************************)
\* the object after a step that ran to result and left depth scopes open
CommitScoped(result, op, depth) ==
    \E vm \in {result} :
    /\ state' = vm.state
    /\ choice_groups' = vm.choice_groups
    /\ saving_throw_proficiencies' = vm.saving_throw_proficiencies
    /\ signal_suppression' = vm.signal_suppression
    /\ emitted' = vm.emitted
    /\ scopes' = depth
    /\ last_op' = op
    /\ ops' = ops + 1
    /\ UNCHANGED srd

\* the object after a call that ran to result
Commit(result, op) == CommitScoped(result, op, scopes)

Op(name, args) == [name |-> name, args |-> args, raised |-> FALSE]

\* CharacterViewModel.__init__ on the dataset data
Construct(data) ==
    /\ srd = data
    /\ LET vm == [state |-> CharacterState, choice_groups |-> <<>>,
                  saving_throw_proficiencies |-> {}, signal_suppression |-> 0,
                  emitted |-> <<>>]
           \* __init__ ends with _refresh_everything
       IN  \E built \in {refresh_everything(vm)} :
           /\ state = built.state
           /\ choice_groups = built.choice_groups
           /\ saving_throw_proficiencies = built.saving_throw_proficiencies
           /\ signal_suppression = built.signal_suppression
           /\ emitted = built.emitted
    /\ scopes = 0
    /\ last_op = Op("__init__", <<>>)
    /\ ops = 0

\* arguments the callers supply
NameInputs == {"Aria", "  "}

LevelInputs == {0, 4, 5, 21}

RaceInputs == (DOMAIN srd.races) \cup {NONE, "Human", "orc"}

SubraceInputs == {NONE, "High-Elf", "hill-dwarf"}

ClassInputs == (DOMAIN srd.classes) \cup {NONE, "Wizard", "bard"}

SubclassInputs == {NONE, "Evocation", "champion"}

BackgroundInputs == {NONE, "Acolyte", "sage"}

AlignmentInputs == {NONE, "neutral"}

GenderInputs == {NONE, "Female", "other"}

AbilityInputs == {"int", "con", "luck"}

ScoreInputs == {0, 15, 31}

BonusInputs == {-1, 2}

SkillInputs == {"skill-arcana", "perception", "juggling"}

SpellInputs == {"Shield", "light"}

SpellKinds == {"known", "prepared"}

\* ids a caller selects in a group: options of the group, in the order of
\* the group and in the opposite order, and a foreign id
SelectionInputs(group) ==
    LET ids == [i \in 1..Len(group.options) |-> group.options[i].id]
    IN  {<<>>, <<ids[1]>>, ids, [i \in 1..Len(ids) |-> ids[Len(ids) + 1 - i]],
         <<ids[Len(ids)], "skill-stealth", ids[1]>>}

SetName ==
    /\ ops < MaxOps
    /\ \E name \in NameInputs : Commit(set_name(VM, name), Op("set_name", <<name>>))

SetLevel ==
    /\ ops < MaxOps
    /\ \E level \in LevelInputs : Commit(set_level(VM, level), Op("set_level", <<level>>))

SetRace ==
    /\ ops < MaxOps
    /\ \E race_index \in RaceInputs :
            Commit(set_race(VM, race_index), Op("set_race", <<race_index>>))

SetSubrace ==
    /\ ops < MaxOps
    /\ \E subrace_index \in SubraceInputs :
            Commit(set_subrace(VM, subrace_index), Op("set_subrace", <<subrace_index>>))

SetClass ==
    /\ ops < MaxOps
    /\ \E class_index \in ClassInputs :
            Commit(set_class(VM, class_index), Op("set_class", <<class_index>>))

SetSubclass ==
    /\ ops < MaxOps
    /\ \E subclass_index \in SubclassInputs :
            Commit(set_subclass(VM, subclass_index), Op("set_subclass", <<subclass_index>>))

SetBackground ==
    /\ ops < MaxOps
    /\ \E background_index \in BackgroundInputs :
            Commit(set_background(VM, background_index),
                   Op("set_background", <<background_index>>))

SetAlignment ==
    /\ ops < MaxOps
    /\ \E alignment \in AlignmentInputs :
            Commit(set_alignment(VM, alignment), Op("set_alignment", <<alignment>>))

SetGender ==
    /\ ops < MaxOps
    /\ \E gender \in GenderInputs :
            Commit(set_gender(VM, gender), Op("set_gender", <<gender>>))

SetBaseAbilityScore ==
    /\ ops < MaxOps
    /\ \E ability \in AbilityInputs, value \in ScoreInputs :
            Commit(set_base_ability_score(VM, ability, value),
                   [name |-> "set_base_ability_score", args |-> <<ability, value>>,
                    raised |-> raises_unknown_ability(ability)])

SetManualAbilityBonus ==
    /\ ops < MaxOps
    /\ \E ability \in AbilityInputs, value \in BonusInputs :
            Commit(set_manual_ability_bonus(VM, ability, value),
                   [name |-> "set_manual_ability_bonus", args |-> <<ability, value>>,
                    raised |-> raises_unknown_ability(ability)])

ToggleSkillProficiency ==
    /\ ops < MaxOps
    /\ \E skill_index \in SkillInputs, enabled \in BOOLEAN :
            Commit(toggle_skill_proficiency(VM, skill_index, enabled),
                   Op("toggle_skill_proficiency", <<skill_index>>))

ToggleExpertise ==
    /\ ops < MaxOps
    /\ \E skill_index \in SkillInputs, enabled \in BOOLEAN :
            Commit(toggle_expertise(VM, skill_index, enabled),
                   Op("toggle_expertise", <<skill_index>>))

SetChoiceSelection ==
    /\ ops < MaxOps
    /\ \/ \E group_id \in DOMAIN choice_groups :
            \E selected_ids \in SelectionInputs(choice_groups[group_id]) :
                Commit(set_choice_selection(VM, group_id, selected_ids),
                       Op("set_choice_selection", <<group_id, selected_ids>>))
       \/ Commit(set_choice_selection(VM, "race:orc:languages", <<"elvish">>),
                 Op("set_choice_selection", <<"race:orc:languages", <<"elvish">>>>))

ToggleSpell ==
    /\ ops < MaxOps
    /\ \E spell_index \in SpellInputs, kind \in SpellKinds, enabled \in BOOLEAN :
            Commit(toggle_spell(VM, spell_index, kind, enabled),
                   Op("toggle_spell", <<spell_index, kind, enabled>>))

ClearCharacter ==
    /\ ops < MaxOps
    /\ Commit(clear_character(VM), Op("reset", <<>>))

RandomizeCharacter ==
    /\ ops < MaxOps
    /\ \E result \in randomize_character(VM) :
            Commit(result, Op("randomize_character", <<>>))

RandomizeCharacterRaises ==
    /\ ops < MaxOps
    /\ \E result \in randomize_interrupted(VM) :
            Commit(result, [name |-> "randomize_character", args |-> <<>>, raised |-> TRUE])

\* fields a caller of _lock_field locks or unlocks
LockInputs == {"level", "race", "class", "gender", "spells", "choices"}

LockField ==
    /\ ops < MaxOps
    /\ \E field \in LockInputs, locked \in BOOLEAN :
            Commit(lock_field(VM, field, locked), Op("_lock_field", <<field, locked>>))

\* _rebuild_choice_groups called once more on the object as it is
RebuildChoiceGroups ==
    /\ ops < MaxOps
    /\ Commit(rebuild_choice_groups(VM), Op("_rebuild_choice_groups", <<>>))

(***************************************************************************)
(* _suspend_signals driven directly: scopes counts the with blocks that    *)
(* are open, and the three helpers that emit are called inside and outside *)
(* of them.                                                                *)
(***************************************************************************)
EnterScope ==
    /\ ops < MaxScopeOps
    /\ scopes < MaxDepth
    /\ CommitScoped(suspend_enter(VM), Op("_suspend_signals.enter", <<>>), scopes + 1)

ExitScope ==
    /\ ops < MaxScopeOps
    /\ scopes > 0
    /\ CommitScoped(suspend_exit(VM), Op("_suspend_signals.exit", <<>>), scopes - 1)

RECURSIVE unwind(_, _)
\* an exception leaving the innermost k with blocks: each runs its finally
unwind(vm, k) == IF k = 0 THEN vm ELSE unwind(suspend_exit(vm), k - 1)

RaiseInScope ==
    /\ ops < MaxScopeOps
    /\ \E k \in 1..scopes :
            CommitScoped(unwind(VM, k),
                         [name |-> "_suspend_signals.raise", args |-> <<k>>, raised |-> TRUE],
                         scopes - k)

CallEmitStateChanged ==
    /\ ops < MaxScopeOps
    /\ Commit(emit_state_changed(VM), Op("_emit_state_changed", <<>>))

CallRefreshDerived ==
    /\ ops < MaxScopeOps
    /\ Commit(refresh_derived(VM), Op("_refresh_derived", <<>>))

CallRebuildChoiceGroups ==
    /\ ops < MaxScopeOps
    /\ Commit(rebuild_choice_groups(VM), Op("_rebuild_choice_groups", <<>>))

\* a public mutator called while scopes are open
CallSetLevel ==
    /\ ops < MaxScopeOps
    /\ \E level \in LevelInputs : Commit(set_level(VM, level), Op("set_level", <<level>>))

Init == Construct(SRD_WIZ)

(***************************************************************************)
(* Drafts with every field locked: a caller sets the structural fields     *)
(* through the setters and then locks every field with _lock_field.        *)
(***************************************************************************)
LOCK_FIELDS ==
    {"name", "level", "race", "subrace", "class", "subclass", "background", "alignment",
     "gender", "abilities", "skills", "choices", "spells", "equipment", "currency", "notes"}

\* _lock_field(field, True) for every field
lock_all(vm) == [vm EXCEPT !.state.randomization_locks = @ \cup LOCK_FIELDS]

\* the structural values the caller sets before locking
LockedInputs ==
    LET bases == {[level |-> 4, race |-> race.index, subrace |-> race.subrace,
                   class |-> "wizard", subclass |-> "evocation", background |-> "acolyte",
                   alignment |-> "lawful-good", gender |-> "female"] :
                    race \in {[index |-> "elf", subrace |-> "high-elf"],
                              [index |-> "human", subrace |-> NONE]}}
        \* values that differ from the base in one field
        others == [level |-> {1}, race |-> {"orc"}, subrace |-> {NONE, "high-elf"},
                   class |-> {"bard", "fighter"}, subclass |-> {NONE, "champion"},
                   background |-> {NONE, "sage"}, alignment |-> {NONE}, gender |-> {NONE}]
    IN  bases \cup {[base EXCEPT ![field] = value] :
                        base \in bases, <<field, value>> \in
                            UNION {{<<f, v>> : v \in others[f]} : f \in DOMAIN others}}

\* the object after the setters and the locks
locked_draft(vm, in) ==
    CHOOSE done \in
        {[lock_all(v9) EXCEPT !.emitted = <<>>] :
            v9 \in {set_gender(v8, in.gender) :
            v8 \in {set_alignment(v7, in.alignment) :
            v7 \in {set_background(v6, in.background) :
            v6 \in {set_subclass(v5, in.subclass) :
            v5 \in {set_class(v4, in.class) :
            v4 \in {set_subrace(v3, in.subrace) :
            v3 \in {set_race(v2, in.race) :
            v2 \in {set_level(v1, in.level) :
            v1 \in {set_name(v0, "Aria") : v0 \in {vm}}}}}}}}}}} : TRUE

InitLocked ==
    /\ srd = SRD_MIX
    /\ \E in \in LockedInputs :
        \E built \in {locked_draft(refresh_everything(
                            [state |-> CharacterState, choice_groups |-> <<>>,
                             saving_throw_proficiencies |-> {}, signal_suppression |-> 0,
                             emitted |-> <<>>]), in)} :
           /\ state = built.state
           /\ choice_groups = built.choice_groups
           /\ saving_throw_proficiencies = built.saving_throw_proficiencies
           /\ signal_suppression = built.signal_suppression
           /\ emitted = built.emitted
    /\ scopes = 0
    /\ last_op = Op("_lock_field", <<"notes", TRUE>>)
    /\ ops = 0

Next ==
    \/ SetName
    \/ SetLevel
    \/ SetRace
    \/ SetSubrace
    \/ SetClass
    \/ SetSubclass
    \/ SetBackground
    \/ SetAlignment
    \/ SetGender
    \/ SetBaseAbilityScore
    \/ SetManualAbilityBonus
    \/ ToggleSkillProficiency
    \/ ToggleExpertise
    \/ SetChoiceSelection
    \/ ToggleSpell
    \/ ClearCharacter
    \/ RandomizeCharacter
    \/ LockField
    \/ RebuildChoiceGroups

Spec == Init /\ [][Next]_vars

NextSuspend ==
    \/ EnterScope
    \/ ExitScope
    \/ RaiseInScope
    \/ CallEmitStateChanged
    \/ CallRefreshDerived
    \/ CallRebuildChoiceGroups
    \/ CallSetLevel

SpecSuspend == Init /\ [][NextSuspend]_vars

\* levels a caller passes to set_level: every level of the game and values
\* on both sides of the range
AnyLevel == -1..22

SetAnyLevel ==
    /\ ops < MaxOps
    /\ \E level \in AnyLevel : Commit(set_level(VM, level), Op("set_level", <<level>>))

NextLevels ==
    \/ SetAnyLevel
    \/ SetClass
    \/ ClearCharacter

SpecLevels == Init /\ [][NextLevels]_vars

\* construction over a dataset without races or without classes
InitSparse == \E data \in {SRD_NO_RACES, SRD_NO_CLASSES} : Construct(data)

NextSparse ==
    \/ SetRace
    \/ SetClass
    \/ LockField
    \/ RandomizeCharacter
    \/ RandomizeCharacterRaises

SpecSparse == InitSparse /\ [][NextSparse]_vars

InitOdd == Construct(SRD_ODD)

NextOdd ==
    \/ SetClass
    \/ SetBaseAbilityScore
    \/ SetManualAbilityBonus
    \/ SetChoiceSelection
    \/ LockField
    \/ RandomizeCharacter

SpecOdd == InitOdd /\ [][NextOdd]_vars

NextLocked ==
    \/ RandomizeCharacter
    \/ SetName
    \/ SetRace
    \/ SetClass
    \/ SetChoiceSelection
    \/ LockField

SpecLocked == InitLocked /\ [][NextLocked]_vars

(***************************************************************************)
(* Properties.                                                             *)
(***************************************************************************)
SIGNALS == {"stateChanged", "derivedChanged", "choiceGroupsChanged"}

\* how often the last call delivered a signal
Delivered(signal) == Cardinality({i \in DOMAIN emitted : emitted[i].signal = signal})

Bucket(kind) == Get(state.selected_spells, kind, {})

OptionIds(group) == {opt.id : opt \in Range(group.options)}

\* C1: after any sequence of toggle_spell calls, interleaved with
\* randomize_character and reset, every spell in the 'prepared' bucket of
\* selected_spells is also in the 'known' bucket.
C1_PreparedAreKnown == Bucket("prepared") \subseteq Bucket("known")

C1_Witness ==
    /\ last_op.name = "toggle_spell"
    /\ ops = 2
    /\ Bucket("prepared") # {}

\* C2: after every public mutator returns, the derived-stats cache equals
\* the result of recomputing update_derived_stats from the current draft,
\* the resolved class and race, the effective skills, the expertise set and
\* the class's saving throws; no state between operations has a stale cache.
C2_DerivedCacheFresh ==
    \E fresh \in {derive(VM)} :
        /\ state.derived = fresh.state.derived
        /\ saving_throw_proficiencies = fresh.saving_throw_proficiencies

C2_Witness ==
    /\ last_op.name = "set_base_ability_score"
    /\ ~last_op.raised
    /\ state.base_ability_scores["int"] = 15
    /\ state.derived.skill_bonuses["arcana"] = ability_modifier(state, "int")
    /\ state.derived.skill_bonuses["arcana"] >= 2

\* C3: after every public mutator returns, every key of choice_selections
\* is the id of a current choice group, each stored selection is a subset of
\* the group's option ids, and holds at most 'choose' options.
C3_SelectionsLegal ==
    \A group_id \in DOMAIN state.choice_selections :
        /\ group_id \in DOMAIN choice_groups
        /\ state.choice_selections[group_id] \subseteq OptionIds(choice_groups[group_id])
        /\ Cardinality(state.choice_selections[group_id]) <= choice_groups[group_id].choose

\* a call of set_choice_selection that stored fewer ids than it was given
C3_Witness ==
    /\ last_op.name = "set_choice_selection"
    /\ last_op.args[1] \in DOMAIN state.choice_selections
    /\ state.choice_selections[last_op.args[1]] # {}
    /\ Cardinality(state.choice_selections[last_op.args[1]]) < Len(last_op.args[2])

\* C4: rebuilding the choice groups while race, subrace, class and
\* background are unchanged (through set_level, or by one more call of the
\* rebuild) yields the same group ids, 'choose' counts and option lists and
\* leaves every stored selection as it was.
C4_RebuildStable ==
    [][last_op'.name \in {"set_level", "_rebuild_choice_groups"} =>
        /\ DOMAIN choice_groups' = DOMAIN choice_groups
        /\ \A group_id \in DOMAIN choice_groups :
            /\ choice_groups'[group_id].choose = choice_groups[group_id].choose
            /\ choice_groups'[group_id].options = choice_groups[group_id].options
        /\ state'.choice_selections = state.choice_selections]_vars

C4_Witness ==
    /\ last_op.name \in {"set_level", "_rebuild_choice_groups"}
    /\ ops = 2
    /\ \E group_id \in DOMAIN state.choice_selections :
            state.choice_selections[group_id] # {}

AllLocked == LOCK_FIELDS \subseteq state.randomization_locks

StructuralFields(st) ==
    <<st.name, st.level, st.race, st.subrace, st.character_class, st.subclass,
      st.background, st.alignment, st.gender>>

\* C5 as stated: if every field is locked before randomize_character is
\* called, then name, level, race, subrace, class, subclass, background,
\* alignment and gender have the same values after the call as before it.
C5_LockedFieldsKept ==
    [][(last_op'.name = "randomize_character" /\ AllLocked) =>
        StructuralFields(state') = StructuralFields(state)]_vars

\* the locked structural values are values the randomizer keeps: class and
\* race are in the dataset, subrace and subclass belong to them (None where
\* there is none to have), background, alignment and gender are not empty
LocksUsable ==
    /\ Truthy(state.character_class) /\ state.character_class \in DOMAIN srd.classes
    /\ Truthy(state.race) /\ state.race \in DOMAIN srd.races
    /\ IF ~IsNone(srd.races[state.race].subraces)
       THEN state.subrace \in DOMAIN srd.races[state.race].subraces
       ELSE state.subrace = NONE
    /\ IF ~IsNone(srd.classes[state.character_class].subclasses)
       THEN state.subclass \in DOMAIN srd.classes[state.character_class].subclasses
       ELSE state.subclass = NONE
    /\ Truthy(state.background)
    /\ Truthy(state.alignment)
    /\ Truthy(state.gender)

\* C5, amended: if every field is locked before randomize_character is
\* called and every locked structural value is one the randomizer keeps
\* (LocksUsable), then name, level, race, subrace, class, subclass,
\* background, alignment and gender are the same after the call as before.
C5_UsableLockedFieldsKept ==
    [][(last_op'.name = "randomize_character" /\ AllLocked /\ LocksUsable) =>
        StructuralFields(state') = StructuralFields(state)]_vars

C5_Witness ==
    /\ last_op.name = "randomize_character"
    /\ ops = 1
    /\ AllLocked
    /\ LocksUsable
    /\ state.subrace = "high-elf"

\* C6: with at least one race and one class in the dataset,
\* randomize_character started from any reachable draft returns, and on
\* return race and class are not None and the level is in 1..20.
C6_RandomizeTotal ==
    (/\ last_op.name = "randomize_character"
     /\ DOMAIN srd.races # {}
     /\ DOMAIN srd.classes # {}) =>
        /\ state.race # NONE
        /\ state.character_class # NONE
        /\ state.level \in 1..20

\* randomize_character has run on a draft whose locked race is not in the
\* dataset: no race but that one is locked as dwarf
C6_Witness ==
    /\ last_op.name = "randomize_character"
    /\ ops = 1
    /\ "race" \in state.randomization_locks
    /\ state.race = "dwarf"

\* C7: one call of randomize_character on a dataset with a class and a
\* race delivers stateChanged, derivedChanged and choiceGroupsChanged
\* exactly once each, all after the final recompute: each is delivered on
\* the object the call returns with, none while the draft is still changing.
C7_RandomizeNotifiesOnce ==
    (/\ last_op.name = "randomize_character"
     /\ DOMAIN srd.races # {}
     /\ DOMAIN srd.classes # {}) =>
        /\ \A signal \in SIGNALS : Delivered(signal) = 1
        /\ \A i \in DOMAIN emitted :
            /\ emitted[i].state = state
            /\ emitted[i].choice_groups = choice_groups
            /\ emitted[i].saving_throw_proficiencies = saving_throw_proficiencies

C7_Witness ==
    /\ last_op.name = "randomize_character"
    /\ Len(emitted) = 3
    /\ state.selected_spells # <<>>
    /\ DOMAIN state.choice_selections # {}

MUTATORS ==
    {"set_name", "set_level", "set_race", "set_subrace", "set_class", "set_subclass",
     "set_background", "set_alignment", "set_gender", "set_base_ability_score",
     "set_manual_ability_bonus", "toggle_skill_proficiency", "toggle_expertise",
     "toggle_spell", "set_choice_selection"}

\* C8: during one call of a public mutator each of stateChanged,
\* derivedChanged and choiceGroupsChanged is emitted at most once; and
\* toggle_spell(s, 'prepared', True) puts s in both buckets and delivers one
\* notification, on the draft that has s in both.
C8_OncePerMutator ==
    /\ last_op.name \in MUTATORS => \A signal \in SIGNALS : Delivered(signal) <= 1
    /\ (last_op.name = "toggle_spell" /\ last_op.args[2] = "prepared" /\ last_op.args[3]) =>
        /\ Lower(last_op.args[1]) \in Bucket("prepared") \cap Bucket("known")
        /\ Len(emitted) = 1
        /\ emitted[1].signal = "stateChanged"
        /\ emitted[1].state = state

\* toggle_spell(s, 'prepared', True) on the fresh draft, where s is not known
C8_Witness ==
    /\ ops = 1
    /\ last_op.name = "toggle_spell"
    /\ last_op.args = <<"Shield", "prepared", TRUE>>
    /\ "shield" \in Bucket("known")
    /\ Len(emitted) = 1

HELPERS == {"_emit_state_changed", "_refresh_derived", "_rebuild_choice_groups"}

\* C9: while _suspend_signals scopes are open, _emit_state_changed,
\* _refresh_derived and _rebuild_choice_groups deliver nothing; leaving an
\* inner scope does not enable delivery; delivery is enabled again when the
\* outermost scope is left, by return or by exception; the suppression
\* counter equals the nesting depth and is never negative.
C9_SuspensionNests ==
    /\ signal_suppression = scopes
    /\ signal_suppression >= 0
    /\ (last_op.name \in HELPERS /\ scopes > 0) => emitted = <<>>
    /\ (last_op.name \in HELPERS /\ scopes = 0) => Len(emitted) = 1

\* an inner scope has been left and the outer one is still open
C9_Witness ==
    /\ last_op.name \in {"_suspend_signals.exit", "_suspend_signals.raise"}
    /\ scopes = 1
    /\ signal_suppression = 1
    /\ ops >= 3

\* the draft and the groups a slot sees are what recomputing them gives
Recomputed(seen) ==
    \E vm \in {[state |-> seen.state, choice_groups |-> seen.choice_groups,
                saving_throw_proficiencies |-> seen.saving_throw_proficiencies,
                signal_suppression |-> 1, emitted |-> <<>>]} :
        /\ derive(vm).state = seen.state
        /\ rebuilt(vm).choice_groups = seen.choice_groups

\* C10: whenever stateChanged, derivedChanged or choiceGroupsChanged is
\* delivered during a mutator, the automatic proficiency and language sets,
\* the choice-group map and the derived-stats cache already correspond to
\* the draft's inputs: no slot runs while the derived cache is stale.
C10_NotifiedAfterRecompute ==
    last_op.name \in MUTATORS => \A i \in DOMAIN emitted : Recomputed(emitted[i])

\* the fields of the draft st1 and st2 agree on, outside of fields
SameExcept(st1, st2, fields) ==
    \A f \in (DOMAIN st1) \ fields : st1[f] = st2[f]

\* C11: set_level(5) on a draft at level 4 changes the derived proficiency
\* bonus from 2 to 3; and every set_level changes only the level, the
\* 'level' lock and the derived cache: every other field of the draft and
\* every lock that was set before the call is as it was.
C11_SetLevelFrame ==
    [][last_op'.name = "set_level" =>
        /\ SameExcept(state, state', {"level", "derived", "randomization_locks"})
        /\ state.randomization_locks \subseteq state'.randomization_locks
        /\ state'.randomization_locks \subseteq state.randomization_locks \cup {"level"}
        /\ (state.level = 4 /\ last_op'.args = <<5>>) =>
                /\ state.derived.proficiency_bonus = 2
                /\ state'.derived.proficiency_bonus = 3]_vars

\* set_level(5) has run on a classless draft at level 4: the first slot it
\* called still saw the hit points of level 4
C11_Witness ==
    /\ last_op.name = "set_level"
    /\ last_op.args = <<5>>
    /\ ops = 2
    /\ state.level = 5
    /\ state.derived.proficiency_bonus = 3
    /\ Len(emitted) = 3
    /\ emitted[1].state.derived.max_hit_points = 4
    /\ emitted[1].state.derived.proficiency_bonus = 2

\* the race of identifier race_index is in the dataset and has the subrace
RaceOffers(race_index, subrace_index) ==
    /\ Truthy(race_index)
    /\ race_index \in DOMAIN srd.races
    /\ subrace_index \in DOMAIN srd.races[race_index].subraces

ClassOffers(class_index, subclass_index) ==
    /\ Truthy(class_index)
    /\ class_index \in DOMAIN srd.classes
    /\ subclass_index \in DOMAIN srd.classes[class_index].subclasses

\* C12: set_race clears the subrace exactly when the new race does not
\* offer it (or is unset, or is not in the dataset), set_class clears the
\* subclass exactly when the new class does not offer it; apart from that,
\* set_race and set_class change no structural field but their own.
C12_CrossFieldReset ==
    [][/\ last_op'.name = "set_race" =>
            /\ state'.subrace = IF RaceOffers(state'.race, state.subrace)
                                THEN state.subrace ELSE NONE
            /\ <<state'.name, state'.level, state'.character_class, state'.subclass,
                 state'.background, state'.alignment, state'.gender>>
               = <<state.name, state.level, state.character_class, state.subclass,
                   state.background, state.alignment, state.gender>>
       /\ last_op'.name = "set_class" =>
            /\ state'.subclass = IF ClassOffers(state'.character_class, state.subclass)
                                 THEN state.subclass ELSE NONE
            /\ <<state'.name, state'.level, state'.race, state'.subrace,
                 state'.background, state'.alignment, state'.gender>>
               = <<state.name, state.level, state.race, state.subrace,
                   state.background, state.alignment, state.gender>>]_vars

\* set_class has run on a draft that had a subclass with its lock set, and
\* has cleared it: the new class is in the dataset and the lock is gone
C12_Witness ==
    /\ last_op.name = "set_class"
    /\ last_op.args = <<"fighter">>
    /\ ops = 1
    /\ state.character_class = "fighter"
    /\ state.subclass = NONE
    /\ "subclass" \notin state.randomization_locks
    /\ state.subrace = "high-elf"

\* C13: after a full reset (CharacterState.reset, then the refresh) every
\* field of the draft, the name and the lock set among them, has the value
\* it has in a freshly constructed draft.
C13_ResetRestoresDefaults ==
    last_op.name = "reset" => SameExcept(state, CharacterState, {"derived"})

ABILITY_MUTATORS == {"set_base_ability_score", "set_manual_ability_bonus"}

\* C14: set_base_ability_score and set_manual_ability_bonus raise for an
\* ability that is not one of the six, and then leave the draft as it was:
\* no ability layer, no lock, no derived value has changed and no signal has
\* been delivered.
C14_UnknownAbilityRejected ==
    [][last_op'.name \in ABILITY_MUTATORS =>
        /\ last_op'.args[1] \notin Abilities => last_op'.raised
        /\ last_op'.raised =>
            /\ state' = state
            /\ choice_groups' = choice_groups
            /\ saving_throw_proficiencies' = saving_throw_proficiencies
            /\ emitted' = <<>>]_vars

\* set_manual_ability_bonus('luck', 2) has raised on a draft that had a
\* lock but not the one of the abilities
C14_Witness ==
    /\ last_op.name = "set_manual_ability_bonus"
    /\ last_op.args = <<"luck", 2>>
    /\ last_op.raised
    /\ ops = 2
    /\ state.randomization_locks = {"level"}
    /\ state.manual_ability_bonuses = [a \in Abilities |-> 0]

SKILL_TOGGLES == {"toggle_skill_proficiency", "toggle_expertise"}

\* C15: toggle_skill_proficiency and toggle_expertise reject a skill that
\* is not a known skill, leaving the selected proficiencies, the expertise
\* set and the lock set as they were; the two sets only ever hold known
\* skills.
C15_UnknownSkillRejected ==
    [][/\ (/\ last_op'.name \in SKILL_TOGGLES
           /\ normalize_skill_index(last_op'.args[1]) \notin Skills) =>
            /\ state'.selected_skill_proficiencies = state.selected_skill_proficiencies
            /\ state'.selected_skill_expertise = state.selected_skill_expertise
            /\ state'.randomization_locks = state.randomization_locks
       /\ state'.selected_skill_proficiencies \subseteq Skills
       /\ state'.selected_skill_expertise \subseteq Skills]_vars

Clamp(lo, hi, n) == Max(lo, Min(hi, n))

\* C16: after any sequence of set_level, set_base_ability_score,
\* randomize_character and reset calls the level is in 1..20 and each base
\* ability score is in 1..30; set_level(n) stores n clamped to 1..20 and
\* set_base_ability_score(a, v) stores v clamped to 1..30.
C16_LevelAndScoresInRange ==
    /\ state.level \in 1..20
    /\ \A a \in Abilities : state.base_ability_scores[a] \in 1..30
    /\ DOMAIN state.base_ability_scores = Abilities
    /\ last_op.name = "set_level" => state.level = Clamp(1, 20, last_op.args[1])
    /\ (last_op.name = "set_base_ability_score" /\ ~last_op.raised) =>
            state.base_ability_scores[last_op.args[1]] = Clamp(1, 30, last_op.args[2])

\* set_level(21) and then set_base_ability_score('con', 31)
C16_Witness ==
    /\ last_op.name = "set_base_ability_score"
    /\ last_op.args = <<"con", 31>>
    /\ state.base_ability_scores["con"] = 30
    /\ state.level = 20

\* the lock each setter of a structural field decides
SETTER_FIELD ==
    [set_name |-> "name", set_race |-> "race", set_subrace |-> "subrace",
     set_class |-> "class", set_subclass |-> "subclass", set_background |-> "background",
     set_alignment |-> "alignment", set_gender |-> "gender"]

\* the caller of a setter supplied a value that is not empty: a name that
\* is not blank, an identifier that is not None, a recognised gender
Supplied(op) ==
    IF op.name = "set_name" THEN Strip(op.args[1]) # ""
    ELSE IF op.name = "set_gender"
         THEN Truthy(op.args[1]) /\ Lower(op.args[1]) \in {"male", "female"}
         ELSE Truthy(op.args[1])

\* C17: after a setter of name, race, subrace, class, subclass, background,
\* alignment or gender returns, the field's lock is set if and only if the
\* caller supplied a non-empty value; no lock of another field is added or
\* removed, except the subrace or subclass lock when set_race or set_class
\* clears that field.
C17_SetterLocks ==
    [][last_op'.name \in DOMAIN SETTER_FIELD =>
        LET field   == SETTER_FIELD[last_op'.name]
            cleared == IF /\ last_op'.name = "set_race"
                          /\ Truthy(state.subrace) /\ state'.subrace = NONE
                       THEN {"subrace"}
                       ELSE IF /\ last_op'.name = "set_class"
                               /\ Truthy(state.subclass) /\ state'.subclass = NONE
                            THEN {"subclass"}
                            ELSE {}
        IN  /\ field \in state'.randomization_locks <=> Supplied(last_op')
            /\ state'.randomization_locks \ {field}
               = (state.randomization_locks \ {field}) \ cleared]_vars

\* set_gender('other') has returned on a draft whose race is locked: the
\* gender is cleared and not locked, the race lock is in place
C17_Witness ==
    /\ last_op.name = "set_gender"
    /\ last_op.args = <<"other">>
    /\ ops = 2
    /\ state.gender = NONE
    /\ state.race = "human"
    /\ state.randomization_locks = {"race"}

\* C18: after set_level(n) returns, whatever n and the current level are,
\* 'level' is in the lock set, and a randomize_character that follows keeps
\* the level.
C18_SetLevelLocks ==
    [][/\ last_op'.name = "set_level" => "level" \in state'.randomization_locks
       /\ (last_op.name = "set_level" /\ last_op'.name = "randomize_character") =>
            state'.level = state.level]_vars

\* C19: after toggle_spell returns, 'spells' is locked if the spell
\* selection is not empty and unlocked if it is empty, and a
\* randomize_character that follows keeps a selection that is not empty.
C19_ToggleSpellLocks ==
    [][/\ last_op'.name = "toggle_spell" =>
            ("spells" \in state'.randomization_locks
                <=> \E kind \in DOMAIN state'.selected_spells :
                        state'.selected_spells[kind] # {})
       /\ (/\ last_op.name = "toggle_spell"
           /\ last_op'.name = "randomize_character"
           /\ \E kind \in DOMAIN state.selected_spells : state.selected_spells[kind] # {}) =>
            state'.selected_spells = state.selected_spells]_vars

\* C20: after any sequence of set_race, set_subrace, set_class,
\* set_subclass, set_background and randomize_character calls, each of race,
\* subrace, class, subclass and background is None or a lowercase identifier
\* of the dataset, the subrace one of the current race, the subclass one of
\* the current class.
C20_IdentifiersResolve ==
    /\ state.race = NONE
        \/ (state.race = Lower(state.race) /\ state.race \in DOMAIN srd.races)
    /\ state.subrace = NONE
        \/ (state.subrace = Lower(state.subrace) /\ RaceOffers(state.race, state.subrace))
    /\ state.character_class = NONE
        \/ (/\ state.character_class = Lower(state.character_class)
            /\ state.character_class \in DOMAIN srd.classes)
    /\ state.subclass = NONE
        \/ (/\ state.subclass = Lower(state.subclass)
            /\ ClassOffers(state.character_class, state.subclass))
    /\ state.background = NONE
        \/ (/\ state.background = Lower(state.background)
            /\ state.background \in DOMAIN srd.backgrounds)

\* C21: after any sequence of toggle_skill_proficiency and toggle_expertise
\* calls the expertise set is a subset of the selected skill proficiencies.
C21_ExpertiseWithinProficiencies ==
    state.selected_skill_expertise \subseteq state.selected_skill_proficiencies

\* C23: for every skill the cached skill bonus is the governing ability's
\* modifier plus twice the proficiency bonus when the skill is in the
\* expertise set, else plus the proficiency bonus when the skill is in the
\* effective skill set (automatic, player-selected or choice-derived), else
\* plus nothing; expertise and proficiency on one skill never add up to three
\* times the proficiency bonus.
C23_SkillBonuses ==
    LET prof == state.derived.proficiency_bonus
        effective == state.automatic_skill_proficiencies
                     \cup state.selected_skill_proficiencies
                     \cup skills_from_choice_selections(VM)
    IN  /\ DOMAIN state.derived.skill_bonuses = Skills
        /\ \A skill \in Skills :
              LET base == (state.base_ability_scores[SKILL_TO_ABILITY[skill]]
                           + state.racial_ability_bonuses[SKILL_TO_ABILITY[skill]]
                           + state.subrace_ability_bonuses[SKILL_TO_ABILITY[skill]]
                           + state.manual_ability_bonuses[SKILL_TO_ABILITY[skill]]
                           - 10) \div 2
              IN  /\ skill \in state.selected_skill_expertise
                        => state.derived.skill_bonuses[skill] = base + 2 * prof
                  /\ skill \in effective \ state.selected_skill_expertise
                        => state.derived.skill_bonuses[skill] = base + prof
                  /\ skill \notin effective \cup state.selected_skill_expertise
                        => state.derived.skill_bonuses[skill] = base

\* a skill with both expertise and proficiency, after the second toggle
C23_Witness ==
    /\ last_op.name = "toggle_expertise"
    /\ "arcana" \in state.selected_skill_expertise
    /\ "arcana" \in state.selected_skill_proficiencies
    /\ state.derived.skill_bonuses["arcana"] = 4

\* C24: set_choice_selection on an existing group never raises and stores
\* the supplied ids that are option ids of the group when there are at most
\* `choose` of them, else the `choose` smallest of them in string order;
\* the order in which the ids were supplied does not matter.
C24_SelectionStored ==
    [][(last_op'.name = "set_choice_selection"
        /\ last_op'.args[1] \in DOMAIN choice_groups)
       => LET group == choice_groups[last_op'.args[1]]
              legal == Range(last_op'.args[2])
                       \cap {group.options[i].id : i \in 1..Len(group.options)}
              stored == state'.choice_selections[last_op'.args[1]]
          IN  /\ ~last_op'.raised
              /\ last_op'.args[1] \in DOMAIN state'.choice_selections
              /\ stored \subseteq legal
              /\ Cardinality(stored) = Min(Cardinality(legal), group.choose)
              /\ \A a \in stored, b \in legal \ stored : StrLess(a, b)]_vars

\* more legal ids than the group allows, supplied largest first
C24_Witness ==
    /\ last_op.name = "set_choice_selection"
    /\ last_op.args[1] = "class:wizard:prof-0"
    /\ last_op.args[2] = <<"skill-insight", "skill-history", "skill-arcana">>
    /\ state.choice_selections["class:wizard:prof-0"]
            = {"skill-arcana", "skill-history"}

\* C29: 'skills' is in the lock set exactly when the selected skill
\* proficiencies or the expertise set is non-empty.
C29_SkillsLockTracksSelections ==
    ("skills" \in state.randomization_locks)
        <=> (state.selected_skill_proficiencies # {}
             \/ state.selected_skill_expertise # {})

\* randomize_character keeping the skills of a draft whose skills are locked
C29_Witness ==
    /\ last_op.name = "randomize_character"
    /\ "skills" \in state.randomization_locks
    /\ state.selected_skill_proficiencies = {"arcana"}

\* C30: after randomize_character on a dataset with races and classes the
\* subrace is a subrace of the resulting race when that race has subraces and
\* is unset when it has none, and the subclass is unset or a subclass of the
\* resulting class, whatever the locks and the earlier values.
C30_SubraceAndSubclassBelong ==
    (last_op.name = "randomize_character" /\ ~last_op.raised)
    => /\ state.race \in DOMAIN srd.races
       /\ IF DOMAIN srd.races[state.race].subraces # {}
          THEN state.subrace \in DOMAIN srd.races[state.race].subraces
          ELSE state.subrace = NONE
       /\ state.character_class \in DOMAIN srd.classes
       /\ \/ state.subclass = NONE
          \/ state.subclass \in DOMAIN srd.classes[state.character_class].subclasses

\* a locked race that does not resolve was re-rolled to dwarf, and the locked
\* subrace of the earlier race gave way to a subrace of dwarf
C30_Witness ==
    /\ ops = 1
    /\ last_op.name = "randomize_character"
    /\ state.race = "dwarf"
    /\ "race" \in state.randomization_locks
    /\ state.subrace = "hill-dwarf"
    /\ "subrace" \notin state.randomization_locks

\* C28: randomize_character with 'choices' locked keeps every option that
\* was selected in a group that still exists after the rebuild, leaves a
\* group that already had `choose` selections unchanged, and tops a group
\* with fewer up with options not yet selected until it has `choose`
\* selections or no option remains.
C28_LockedChoicesToppedUp ==
    [][(last_op'.name = "randomize_character" /\ ~last_op'.raised
        /\ "choices" \in state.randomization_locks)
       => \A g \in DOMAIN choice_groups' :
            LET group  == choice_groups'[g]
                ids    == {group.options[i].id : i \in 1..Len(group.options)}
                before == IF g \in DOMAIN state.choice_selections
                          THEN state.choice_selections[g] ELSE {}
                after  == IF g \in DOMAIN state'.choice_selections
                          THEN state'.choice_selections[g] ELSE {}
            IN  /\ before \subseteq after
                /\ after \subseteq ids
                /\ Cardinality(before) >= group.choose => after = before
                /\ Cardinality(before) < group.choose
                      => Cardinality(after) = Min(group.choose, Cardinality(ids))]_vars

\* the wizard's skill group filled while 'choices' is locked with the two
\* options no caller's selection stores together
C28_Witness ==
    /\ last_op.name = "randomize_character"
    /\ "choices" \in state.randomization_locks
    /\ "class:wizard:prof-0" \in DOMAIN state.choice_selections
    /\ state.choice_selections["class:wizard:prof-0"] = {"skill-history", "skill-insight"}

\* C22: for every level value proficiency_bonus(level) is
\* 2 + floor((clamp(level, 1, 20) - 1) / 4), that is 2 for levels 1-4, 3 for
\* 5-8, 4 for 9-12, 5 for 13-16 and 6 for 17-20, and the cached proficiency
\* bonus is this function of the draft's current level.
C22_ProficiencyBonus ==
    LET tier(level) == CHOOSE b \in 2..6 :
                            /\ 4 * (b - 2) + 1 <= Clamp(1, 20, level)
                            /\ Clamp(1, 20, level) <= 4 * (b - 2) + 4
    IN  /\ \A level \in AnyLevel : proficiency_bonus(level) = tier(level)
        /\ state.derived.proficiency_bonus = tier(state.level)

\* set_level has moved the draft into the fourth tier
C22_Witness ==
    /\ last_op.name = "set_level"
    /\ state.level = 13
    /\ state.derived.proficiency_bonus = 5

\* C25: randomize_character never raises and always completes a character:
\* when the dataset has no races or no classes it still returns, and the
\* draft has a class and a race afterwards.
C25_RandomizeNeverFails ==
    last_op.name = "randomize_character"
    => /\ ~last_op.raised
       /\ state.race # NONE
       /\ state.character_class # NONE

\* C26: after randomize_character with 'abilities' not locked the six base
\* ability scores are a permutation of the standard array in which the i-th
\* ability of the chosen class's priority order has the i-th array value
\* (the plain str, dex, con, int, wis, cha order when the class has no
\* priority entry) and the manual bonuses are all 0; with 'abilities' locked
\* the base scores and the manual bonuses are unchanged.
C26_StandardArrayByPriority ==
    [][(last_op'.name = "randomize_character" /\ ~last_op'.raised)
       => IF "abilities" \notin state.randomization_locks
          THEN LET order == IF state'.character_class \in DOMAIN CLASS_ABILITY_PRIORITIES
                            THEN CLASS_ABILITY_PRIORITIES[state'.character_class]
                            ELSE ABILITY_SCORES
               IN  /\ DOMAIN state'.base_ability_scores = Abilities
                   /\ \A i \in 1..Len(STANDARD_ARRAY) :
                        state'.base_ability_scores[order[i]] = STANDARD_ARRAY[i]
                   /\ \A n \in Range(STANDARD_ARRAY) :
                        Cardinality({a \in Abilities : state'.base_ability_scores[a] = n}) = 1
                   /\ \A a \in Abilities : state'.manual_ability_bonuses[a] = 0
          ELSE /\ state'.base_ability_scores = state.base_ability_scores
               /\ state'.manual_ability_bonuses = state.manual_ability_bonuses]_vars

\* a class without a priority entry was drawn: the array in the plain order
C26_Witness ==
    /\ last_op.name = "randomize_character"
    /\ "abilities" \notin state.randomization_locks
    /\ state.character_class = "artificer"
    /\ state.base_ability_scores["str"] = 15
    /\ state.base_ability_scores["cha"] = 8

\* C27: after randomize_character with 'choices' not locked every choice
\* group of the resulting race, subrace, class and background has a stored
\* selection of exactly `choose` options, all option ids of the group.
C27_ChoicesFilledExactly ==
    [][(last_op'.name = "randomize_character" /\ ~last_op'.raised
        /\ "choices" \notin state.randomization_locks)
       => \A g \in DOMAIN choice_groups' :
            /\ g \in DOMAIN state'.choice_selections
            /\ state'.choice_selections[g]
                    \subseteq {choice_groups'[g].options[i].id :
                                    i \in 1..Len(choice_groups'[g].options)}
            /\ Cardinality(state'.choice_selections[g]) = choice_groups'[g].choose]_vars

\* C27 as amended: after randomize_character has rebuilt the choice groups
\* with 'choices' not locked, the stored selection of every group is made of
\* min(choose, n) of the n options the group lists: `choose` ids when the
\* group lists that many, all of its ids when it lists fewer.
C27_ChoicesFilledToCapacity ==
    [][(last_op'.name = "randomize_character" /\ ~last_op'.raised
        /\ "choices" \notin state.randomization_locks)
       => \A g \in DOMAIN choice_groups' :
            LET options == choice_groups'[g].options
                drawn   == Min(choice_groups'[g].choose, Len(options))
            IN  /\ g \in DOMAIN state'.choice_selections
                /\ \E P \in SUBSET (1..Len(options)) :
                        /\ Cardinality(P) = drawn
                        /\ state'.choice_selections[g] = {options[i].id : i \in P}
                /\ Cardinality(state'.choice_selections[g])
                        = Min(choice_groups'[g].choose,
                              Cardinality({options[i].id : i \in 1..Len(options)}))]_vars

\* the group that asks for three options and lists two holds both
C27_Witness ==
    /\ last_op.name = "randomize_character"
    /\ "choices" \notin state.randomization_locks
    /\ "class:artificer:prof-0" \in DOMAIN choice_groups
    /\ choice_groups["class:artificer:prof-0"].choose = 3
    /\ state.choice_selections["class:artificer:prof-0"] = {"skill-arcana", "skill-history"}

====
